---- MODULE Spec2Model ----
(***************************************************************************)
(* Model of the campaign tracking, dispatch and CSV import core of the     *)
(* phishing portal (campaigns/services.py, campaigns/views.py,             *)
(* campaigns/models.py).                                                   *)
(*                                                                         *)
(* Text values (CSV cells, email addresses) are sequences of characters    *)
(* over a small alphabet, so that strip(), lower() and validate_email()    *)
(* are computed and not assumed.                                           *)
(***************************************************************************)
EXTENDS Integers, Sequences, FiniteSets, Bags, TLC

(***************************************************************************)
(* Bounds of the model.                                                    *)
(***************************************************************************)
\* data rows of an uploaded file
MaxRows == 3
\* Event rows the model lets accumulate
MaxEvents == 2
\* a send may start while fewer messages than this have been handed over
MaxOutbox == 2

\* services.py:611 sets MAX_RECIPIENTS = 1000.  The model keeps the code's
\* comparison (created_count + linked_count >= MAX_RECIPIENTS) and scales the
\* number down so that files on both sides of the limit are enumerable.
MAX_RECIPIENTS == 2

\* services.py:715 logs an import as suspicious when len(error_rows) > 10, and
\* views.py:218 lists the details of the error rows when len(error_rows) <= 5.
\* The model keeps both comparisons and scales the two numbers down, in their
\* order, so that files on both sides of each are enumerable.
SUSPICIOUS_ERRORS == 2
DETAILS_LIMIT == 1

Campaigns == {1, 2}
\* values uuid.uuid4 can return (models.py:199)
Tokens == {1, 2}

(***************************************************************************)
(* Text.                                                                   *)
(***************************************************************************)
EmptyStr == << >>
\* the value csv.DictReader stores for a cell the row does not have
None == <<"None">>

addr_a == <<"a", "@", "d">>
addr_A == <<"A", "@", "d">>
addr_b == <<"b", "@", "d">>

\* str.lower(), one character
LowerChar(ch) == IF ch = "A" THEN "a" ELSE IF ch = "B" THEN "b" ELSE ch

\* str.lower()
Lower(s) == [i \in 1..Len(s) |-> LowerChar(s[i])]

RECURSIVE LStrip(_)
LStrip(s) == IF s # << >> /\ Head(s) = " " THEN LStrip(Tail(s)) ELSE s

RECURSIVE RStrip(_)
RStrip(s) ==
    IF s # << >> /\ s[Len(s)] = " " THEN RStrip(SubSeq(s, 1, Len(s) - 1)) ELSE s

\* str.strip()
Strip(s) == RStrip(LStrip(s))

UserChars == {"a", "A", "b", "B"}
DomainChars == {"d"}

\* django.core.validators.validate_email: the value holds an "@"; the part
\* before the last "@" is a non-empty run of user characters and the part
\* after it a non-empty run of domain characters.  TRUE when it does not raise.
validate_email(value) ==
    /\ \E i \in 1..Len(value) : value[i] = "@"
    /\ LET at == CHOOSE i \in 1..Len(value) :
                    /\ value[i] = "@"
                    /\ \A j \in (i + 1)..Len(value) : value[j] # "@"
           user_part == SubSeq(value, 1, at - 1)
           domain_part == SubSeq(value, at + 1, Len(value))
       IN /\ user_part # << >>
          /\ domain_part # << >>
          /\ \A j \in 1..Len(user_part) : user_part[j] \in UserChars
          /\ \A j \in 1..Len(domain_part) : domain_part[j] \in DomainChars

(***************************************************************************)
(* Users (accounts/models.py:26-36) and the requests they send.            *)
(***************************************************************************)
\* request.user of a request without a session
AnonymousUser ==
    [username |-> "", role |-> "", email |-> EmptyStr, is_authenticated |-> FALSE]

\* the accounts the tests create (campaigns/tests.py:35-42, 56-58), and an
\* administrator
Users ==
    { [username |-> "admin", role |-> "ADMIN", email |-> EmptyStr,
       is_authenticated |-> TRUE],
      [username |-> "inst", role |-> "INSTRUCTOR", email |-> addr_b,
       is_authenticated |-> TRUE],
      [username |-> "view", role |-> "VIEWER", email |-> addr_a,
       is_authenticated |-> TRUE] }

Requesters == Users \cup {AnonymousUser}

\* the user of the tests who sends the campaigns (tests.py:56-58)
Sender ==
    [username |-> "inst", role |-> "INSTRUCTOR", email |-> addr_b,
     is_authenticated |-> TRUE]

\* request.META["REMOTE_ADDR"] of the connections: absent, the test client's
\* address and a public one
ClientAddrs == {"", "127.0.0.1", "203.0.113.9"}

\* hashlib.sha256(ip.encode()).hexdigest() of the addresses above
sha256_hexdigest(ip) ==
    IF ip = "127.0.0.1"
      THEN "12ca17b49af2289436f303e0166030a21e525d266e209267433801a8fd4071a0"
    ELSE IF ip = "203.0.113.9"
      THEN "d861b7e91033ebc1c1e8e7af3929010158b3241b54ca87ef73e79c32f26400ec"
    ELSE "e3b0c44298fc1c149afbf4c8996fb92427ae41e4649b934ca495991b7852b855"

(***************************************************************************)
(* URLs (urls.py:22-34).                                                   *)
(***************************************************************************)
\* the paths urls.py:31-34 routes to track_open, track_click, track_report
\* and landing_page; str(uuid) is the token's decimal numeral
track_open_path(tracking_id) == "/campaigns/t/" \o ToString(tracking_id) \o "/open/"

track_click_path(tracking_id) == "/campaigns/t/" \o ToString(tracking_id) \o "/click/"

track_report_path(tracking_id) == "/campaigns/t/" \o ToString(tracking_id) \o "/report/"

landing_page_path(tracking_id) == "/campaigns/l/" \o ToString(tracking_id) \o "/"

\* the click URL built for the link of the other token
click_url_of_other_token(tracking_id) == track_click_path(3 - tracking_id)

\* reverse("campaigns:track_click", kwargs={"tracking_id": str(cr.tracking_id)})
click_url(tracking_id) == track_click_path(tracking_id)

report_url(tracking_id) == track_report_path(tracking_id)

open_url(tracking_id) == track_open_path(tracking_id)

\* reverse("campaigns:campaign_detail", kwargs={"pk": campaign.pk})
campaign_detail_url(pk) == "/campaigns/" \o ToString(pk) \o "/"

\* reverse("campaigns:landing_page", kwargs={"tracking_id": tracking_id})
landing_url(tracking_id) == landing_page_path(tracking_id)

\* the <uuid:tracking_id> converter of urls.py:32 on a requested path: the
\* token, or 0 when the path is no click URL of a token
TokenOfClickUrl(url) ==
    IF \E t \in Tokens : track_click_path(t) = url
      THEN CHOOSE t \in Tokens : track_click_path(t) = url
    ELSE 0

(***************************************************************************)
(* Uploaded files.                                                         *)
(***************************************************************************)
\* header lines: an empty file, a header without the email column, and the
\* header "email,first_name"
Headers == { << >>, <<"first_name">>, <<"email", "first_name">> }

EmailCells == { addr_a, addr_A, addr_b, <<" ">>, <<"a", "d">> }
NameCells == { EmptyStr }

\* the cells of one data line (csv.reader never yields an empty line to
\* DictReader, so a line has at least one cell): full lines, and a line that
\* stops after its first cell
RawRows == { <<e, n>> : e \in EmailCells, n \in NameCells } \cup { <<addr_b>> }

\* csv.DictReader.__next__: cells are paired with the field names in order; a
\* field name the line has no cell for gets restval = None
DictReader(fieldnames, line) ==
    [k \in {fieldnames[i] : i \in 1..Len(fieldnames)} |->
        LET i == CHOOSE j \in 1..Len(fieldnames) : fieldnames[j] = k
        IN IF i <= Len(line) THEN line[i] ELSE None]

\* row.get(key, "")
RowGet(row, key) == IF key \in DOMAIN row THEN row[key] ELSE EmptyStr

(***************************************************************************)
(* State.                                                                  *)
(***************************************************************************)
VARIABLES
    recipients,   \* Recipient table, committed rows in primary-key order
    links,        \* CampaignRecipient table, committed rows in primary-key order
    events,       \* Event table: a bag of [campaign_recipient, event_type, ip_hash]
    outbox,       \* messages the mail transport has accepted, in order
    sent_emails,  \* CampaignEmail table, in order
    imp,          \* the import_recipients_from_csv call in flight, or its result
    resp,         \* the HTTP status of the last capture or send request, 0 before any
    upload,       \* the file an actor uploads repeatedly (SpecTwice only)
    hist,         \* the results of the imports of that file (SpecTwice only)
    location,     \* the Location header of the last response, "" if none
    templates,    \* EmailTemplate table, rows in primary-key order
    campaigns,    \* Campaign table, rows in primary-key order
    render,       \* what the last request or rendering rendered
    workers,      \* the imports running concurrently (SpecConcurrent only)
    settings,     \* the Django settings the process runs with
    client,       \* request.META of the connections the requests arrive on
    logged        \* the AuditLog rows the last request or call left in the table

vars == <<recipients, links, events, outbox, sent_emails, imp, resp, upload, hist,
          location, templates, campaigns, render, workers, settings, client, logged>>

\* the state the import, capture and dispatch requests leave alone
others == <<templates, campaigns, render, workers, settings, client>>

ImpIdle ==
    [pc |-> "idle", status |-> "none", campaign |-> 0, fieldnames |-> << >>,
     row_num |-> 0, more |-> FALSE,
     created_count |-> 0, linked_count |-> 0,
     error_rows |-> << >>, error_details |-> << >>,
     emails_seen_in_file |-> {}, txRecipients |-> << >>, txLinks |-> << >>,
     txAudit |-> << >>]

NoUpload == [campaign |-> 0, lines |-> << >>]

NoRender == [done |-> FALSE]

\* the template the tests' setUp creates with the model's default scenario
\* (models.py:59-65), and the two campaigns Campaigns names, both using it
\* DEBUG = os.environ.get("DJANGO_DEBUG", "1") == "1" (settings.py:19)
DefaultSettings == [DEBUG |-> TRUE]

\* the connection of the test client (django.test.Client)
DefaultClient == [REMOTE_ADDR |-> "127.0.0.1"]

\* Campaign.Status (models.py:131-137)
Status == {"DRAFT", "SCHEDULED", "ACTIVE", "PAUSED", "COMPLETED", "CANCELLED"}

\* a Campaign row as Campaign.objects.create(name=, email_template=,
\* created_by=) leaves it: status has its default (models.py:163-167)
Campaign(email_template, created_by) ==
    [email_template |-> email_template, created_by |-> created_by, status |-> "DRAFT"]

\* the request of a user on the connection, and the None that the service
\* layer passes to log_action
Request(user) == [is_none |-> FALSE, user |-> user, REMOTE_ADDR |-> client.REMOTE_ADDR]

NoRequest == [is_none |-> TRUE]

\* AuditLog.user of a row written without an authenticated user
NullUser == "NULL"

\* get_client_ip(request) (utils.py:13-28)
get_client_ip(request) ==
    LET ip == request.REMOTE_ADDR
    IN IF ip # "" THEN sha256_hexdigest(ip) ELSE ""

\* the row log_action(request, action, details) creates (utils.py:31-57)
log_action(request, action) ==
    [user |-> IF ~request.is_none /\ request.user.is_authenticated
                THEN request.user.username ELSE NullUser,
     action |-> action,
     ip_address |-> IF ~request.is_none THEN get_client_ip(request) ELSE ""]

DefaultTemplates == <<[scenario |-> "IT_ALERT", body |-> EmptyStr]>>

DefaultCampaigns ==
    <<Campaign(1, "inst"), Campaign(1, "inst")>>

Init ==
    /\ recipients = << >>
    /\ links = << >>
    /\ events = EmptyBag
    /\ outbox = << >>
    /\ sent_emails = << >>
    /\ imp = ImpIdle
    /\ resp = 0
    /\ upload = NoUpload
    /\ hist = << >>
    /\ location = ""
    /\ templates = DefaultTemplates
    /\ campaigns = DefaultCampaigns
    /\ render = NoRender
    /\ workers = << >>
    /\ settings = DefaultSettings
    /\ client = DefaultClient
    /\ logged = << >>

(***************************************************************************)
(* import_recipients_from_csv (services.py:574-739).                       *)
(***************************************************************************)
\* what the open transaction of the import sees: the committed rows and its
\* own uncommitted ones
ViewRecipients(st) == recipients \o st.txRecipients
ViewLinks(st) == links \o st.txLinks

\* Rollback without the rollback: the rows written before the exception stay
RollbackKeepsRows(st, status) == [st EXCEPT !.pc = "done", !.status = status]

\* an exception leaves "with transaction.atomic()" (services.py:638): the
\* transaction's rows are discarded and the call ends with the error
Rollback(st, status) ==
    [st EXCEPT !.pc = "done", !.status = status,
               !.txRecipients = << >>, !.txLinks = << >>, !.txAudit = << >>]

\* error_rows.append(row_num); error_details[row_num] = reason; continue
RowError(st, reason) ==
    [st EXCEPT !.error_rows = Append(@, st.row_num),
               !.error_details = Append(@, reason)]

\* services.py:675
LimitReached(st) == st.created_count + st.linked_count >= MAX_RECIPIENTS

\* the primary keys of the Recipients whose email is the given one
RecipientsByEmail(view, email) == {i \in 1..Len(view) : view[i].email = email}

\* tracking_id without its unique constraint
TrackingIdNeverTaken(view, tok) == FALSE

\* the unique constraint on CampaignRecipient.tracking_id (models.py:199)
TrackingIdTaken(view, tok) == \E i \in 1..Len(view) : view[i].tracking_id = tok

\* the rows CampaignRecipient.objects.get(campaign=, recipient=) matches
LinksOfPair(view, campaign, rid) ==
    {i \in 1..Len(view) : view[i].campaign = campaign /\ view[i].recipient = rid}

\* CampaignRecipient.objects.get_or_create(campaign, recipient) of
\* services.py:700-706, after the Recipient rid has been got or created in st
LinkGetOrCreate(st, rid, tok) ==
    LET view == ViewLinks(st)
    IN IF LinksOfPair(view, st.campaign, rid) # {}
         THEN st
       ELSE IF TrackingIdTaken(view, tok)
         \* IntegrityError: caught at services.py:708
         THEN RowError(st, "Database error")
       ELSE [st EXCEPT !.txLinks = Append(@, [campaign |-> st.campaign,
                                               recipient |-> rid,
                                               tracking_id |-> tok,
                                               is_active |-> TRUE]),
                       !.linked_count = @ + 1]

\* get_or_create replaced by create: a Recipient is made for every row
AlwaysCreate(st, email_lower, defaults, tok, fault) ==
    IF fault
      THEN RowError(st, "Database error")
    ELSE LinkGetOrCreate(
           [st EXCEPT !.txRecipients = Append(@, [email |-> email_lower] @@ defaults),
                      !.created_count = @ + 1],
           Len(ViewRecipients(st)) + 1, tok)

\* services.py:685-712: Recipient.objects.get_or_create(email=email_lower),
\* then the link; any exception is recorded as a row error (services.py:708)
GetOrCreate(st, email_lower, defaults, tok, fault) ==
    LET view == ViewRecipients(st)
        found == RecipientsByEmail(view, email_lower)
    IN IF fault \/ Cardinality(found) > 1
         \* a storage error, or MultipleObjectsReturned
         THEN RowError(st, "Database error")
       ELSE IF found = {}
         THEN LinkGetOrCreate(
                [st EXCEPT !.txRecipients = Append(@, [email |-> email_lower] @@ defaults),
                           !.created_count = @ + 1],
                Len(view) + 1, tok)
       ELSE LinkGetOrCreate(st, CHOOSE i \in found : TRUE, tok)

\* one pass of the loop body, services.py:639-712, on the line the reader
\* yields; tok is the value uuid4 returns if a link is created, fault says
\* that the Recipient query raises a storage error
ProcessRow(st0, line, tok, fault) ==
    LET row == DictReader(st0.fieldnames, line)
        st == [st0 EXCEPT !.row_num = @ + 1]
        email_cell == RowGet(row, "email")
        first_name_cell == RowGet(row, "first_name")
    IN IF email_cell = None \/ first_name_cell = None
         \* None.strip() raises AttributeError, wrapped at services.py:733-737
         THEN Rollback(st, "error")
       ELSE
         LET email == Strip(email_cell)
             email_lower == Lower(email)
         IN IF email = EmptyStr
              THEN RowError(st, "Email is required")
            ELSE IF ~validate_email(email)
              THEN RowError(st, "Invalid email format")
            ELSE IF email_lower \in st.emails_seen_in_file
              THEN RowError(st, "Duplicate email in file")
            ELSE
              LET seen == [st EXCEPT !.emails_seen_in_file = @ \cup {email_lower}]
              IN IF LimitReached(seen)
                   \* log_action_func(None, ...) writes its row on the
                   \* connection of the open transaction, then ValueError
                   THEN Rollback([seen EXCEPT !.txAudit = Append(@,
                                     log_action(NoRequest,
                                                "Recipient limit exceeded - CSV upload"))],
                                 "limit")
                 ELSE GetOrCreate(seen, email_lower,
                                  [first_name |-> Strip(first_name_cell),
                                   last_name |-> Strip(RowGet(row, "last_name")),
                                   department |-> Strip(RowGet(row, "department"))],
                                  tok, fault)

\* the reader is exhausted: the atomic block is left without an exception,
\* then services.py:725-727
Finished(st) ==
    [st EXCEPT !.pc = "done",
               !.status = IF st.row_num = 1 THEN "no_data" ELSE "ok",
               !.emails_seen_in_file = {},
               !.txRecipients = << >>, !.txLinks = << >>, !.txAudit = << >>]

\* services.py:714-723, after the atomic block was left normally
SuspiciousLog(st) ==
    IF Len(st.error_rows) > SUSPICIOUS_ERRORS
      THEN <<log_action(NoRequest, "Suspicious CSV import - many errors")>>
    ELSE << >>

\* services.py:611-635: decode, read the header, check the required column;
\* has_rows says whether the reader has a data line to yield
ImportBegin(campaign, utf8, fieldnames, has_rows) ==
    /\ imp.pc # "rows"
    /\ LET st == [ImpIdle EXCEPT !.campaign = campaign, !.pc = "done"]
       IN imp' = IF ~utf8
                   THEN [st EXCEPT !.status = "encoding"]
                 ELSE IF fieldnames = << >>
                   THEN [st EXCEPT !.status = "empty"]
                 ELSE IF \A i \in 1..Len(fieldnames) : fieldnames[i] # "email"
                   THEN [st EXCEPT !.status = "missing_columns"]
                 ELSE IF has_rows
                   THEN [st EXCEPT !.pc = "rows", !.status = "running",
                                   !.fieldnames = fieldnames, !.row_num = 1]
                 ELSE Finished([st EXCEPT !.row_num = 1])
    /\ logged' = << >>
    /\ UNCHANGED <<recipients, links, events, outbox, sent_emails, resp, location>>

\* one iteration of "for row in reader" (services.py:639) on the next line of
\* the file; last says that the reader has no further line, in which case the
\* loop ends.  When the call ends, what the transaction still holds is
\* committed: everything if the atomic block was left normally, nothing if an
\* exception left it (Rollback).  A failed call records in "more" whether the
\* file had further lines.
ImportRow(line, tok, fault, last) ==
    /\ imp.pc = "rows"
    /\ imp.row_num < MaxRows \/ last
    /\ LET st == ProcessRow(imp, line, tok, fault)
       IN IF st.pc = "done"
            THEN /\ recipients' = recipients \o st.txRecipients
                 /\ links' = links \o st.txLinks
                 /\ logged' = logged \o st.txAudit
                 /\ imp' = [st EXCEPT !.more = ~last, !.emails_seen_in_file = {},
                                      !.txRecipients = << >>, !.txLinks = << >>,
                                      !.txAudit = << >>]
          ELSE IF last
            THEN /\ recipients' = recipients \o st.txRecipients
                 /\ links' = links \o st.txLinks
                 /\ logged' = logged \o st.txAudit \o SuspiciousLog(st)
                 /\ imp' = Finished(st)
          ELSE /\ imp' = st
               /\ UNCHANGED <<recipients, links, logged>>
    /\ UNCHANGED <<events, outbox, sent_emails, resp, location>>

import_recipients_from_csv ==
    \/ \E c \in Campaigns, utf8 \in BOOLEAN, h \in Headers, has_rows \in BOOLEAN :
          ImportBegin(c, utf8, h, has_rows)
    \/ \E line \in RawRows, tok \in Tokens, fault \in BOOLEAN, last \in BOOLEAN :
          ImportRow(line, tok, fault, last)

(***************************************************************************)
(* Event capture (views.py:276-325).                                       *)
(***************************************************************************)
EventTypes == {"OPEN", "CLICK", "REPORT"}

\* the lookup without its is_active filter
LinksByTokenAnyState(view, tracking_id) ==
    {i \in 1..Len(view) : view[i].tracking_id = tracking_id}

\* the rows CampaignRecipient.objects.get(tracking_id=, is_active=True)
\* matches (views.py:278-280)
ActiveLinksByToken(view, tracking_id) ==
    {i \in 1..Len(view) :
        view[i].tracking_id = tracking_id /\ view[i].is_active}

\* _hash_ip without the hash
_keep_ip(ip) == ip

\* _hash_ip(ip) (views.py:268-273)
_hash_ip(ip) == IF ip = "" THEN "" ELSE sha256_hexdigest(ip)

\* the row Event.objects.create(campaign_recipient=, event_type=, user_agent=,
\* ip_hash=_hash_ip(ip)) writes for a request (views.py:284-292)
Event(campaign_recipient, event_type) ==
    [campaign_recipient |-> campaign_recipient, event_type |-> event_type,
     ip_hash |-> _hash_ip(client.REMOTE_ADDR)]

\* _log_event(tracking_id, event_type, request): the link the event was
\* written for, 0 if Http404 was raised; more than one match makes get()
\* raise MultipleObjectsReturned, an unhandled error
_log_event(tracking_id, event_type) ==
    LET found == ActiveLinksByToken(links, tracking_id)
    IN IF found = {}
         THEN [status |-> 404, events |-> events]
       ELSE IF Cardinality(found) > 1
         THEN [status |-> 500, events |-> events]
       ELSE [status |-> 200,
             events |-> events (+) SetToBag({Event(CHOOSE i \in found : TRUE, event_type)})]

\* a capture endpoint: _log_event, then the pixel (200) or the redirect to the
\* landing page of the requested tracking_id (302)
Endpoint(tracking_id, event_type, ok_status) ==
    /\ LET r == _log_event(tracking_id, event_type)
       IN /\ BagCardinality(r.events) <= MaxEvents
          /\ events' = r.events
          /\ resp' = IF r.status = 200 THEN ok_status ELSE r.status
          /\ location' = IF r.status = 200 /\ ok_status = 302
                           THEN landing_url(tracking_id) ELSE ""
    /\ logged' = << >>
    /\ UNCHANGED <<recipients, links, outbox, sent_emails, imp>>

track_open(tracking_id) == Endpoint(tracking_id, "OPEN", 200)

track_click(tracking_id) == Endpoint(tracking_id, "CLICK", 302)

track_report(tracking_id) == Endpoint(tracking_id, "REPORT", 302)

\* the admin change form of CampaignRecipient sets is_active (admin.py:53-63)
admin_set_active(i, flag) ==
    /\ i \in 1..Len(links)
    /\ links[i].is_active # flag
    /\ links' = [links EXCEPT ![i].is_active = flag]
    /\ logged' = << >>
    /\ UNCHANGED <<recipients, events, outbox, sent_emails, imp, resp, location>>

(***************************************************************************)
(* Dispatch (services.py:478-571, views.py:362-379).                       *)
(***************************************************************************)
\* cr_qs = CampaignRecipient.objects.filter(campaign=campaign), in
\* primary-key order (services.py:496)
RECURSIVE FilterCampaign(_, _, _)
FilterCampaign(view, campaign, i) ==
    IF i > Len(view) THEN << >>
    ELSE IF view[i].campaign = campaign
      THEN <<i>> \o FilterCampaign(view, campaign, i + 1)
    ELSE FilterCampaign(view, campaign, i + 1)

cr_qs(campaign) == FilterCampaign(links, campaign, 1)

(***************************************************************************)
(* Message rendering (services.py:40-475, 501-554).  A body is a sequence  *)
(* of pieces: the characters "<" and ">" of markup, single characters of   *)
(* recipient data, and longer pieces of fixed wording or whole URLs.       *)
(***************************************************************************)
\* EmailTemplate.Scenario (models.py), a value outside the choices, and blank
Scenarios ==
    {"IT_ALERT", "PASSWORD_RESET", "PAYROLL", "DELIVERY", "HR_POLICY", "GENERAL",
     "OTHER", ""}

\* first and last names as the import stores them
Names == { EmptyStr, <<"n">>, <<"<", "n", ">">>, <<"&">> }

\* EmailTemplate.body values: blank, plain wording, wording with a placeholder
TemplateBodies == { EmptyStr, <<"Notice">>, <<"Hello ", "{{ first_name }}">> }

\* django.utils.html.escape, one piece
EscapePiece(p) ==
    IF p = "<" THEN "&lt;"
    ELSE IF p = ">" THEN "&gt;"
    ELSE IF p = "&" THEN "&amp;"
    ELSE IF p = "&lt;" THEN "&amp;lt;"
    ELSE IF p = "&gt;" THEN "&amp;gt;"
    ELSE IF p = "&amp;" THEN "&amp;amp;"
    ELSE p

\* django.utils.html.escape
escape(s) == [i \in 1..Len(s) |-> EscapePiece(s[i])]

\* django.utils.html.strip_tags: everything from a "<" to the next ">" goes
RECURSIVE strip_tags(_)
strip_tags(s) ==
    IF s = << >> THEN << >>
    ELSE IF Head(s) = "<" /\ \E j \in 2..Len(s) : s[j] = ">"
      THEN LET close == CHOOSE j \in 2..Len(s) :
                            s[j] = ">" /\ \A k \in 2..(j - 1) : s[k] # ">"
           IN strip_tags(SubSeq(s, close + 1, Len(s)))
    ELSE <<Head(s)>> \o strip_tags(Tail(s))

\* ctx of services.py:504-509
Context(rec) ==
    [first_name |-> rec.first_name,
     full_name |-> IF rec.first_name # EmptyStr \/ rec.last_name # EmptyStr
                     THEN Strip(rec.first_name \o <<" ">> \o rec.last_name)
                   ELSE EmptyStr]

\* services.py:40-42
_safe_name(ctx) ==
    IF ctx.first_name # EmptyStr THEN ctx.first_name
    ELSE IF ctx.full_name # EmptyStr THEN ctx.full_name
    ELSE <<"Colleague">>

\* the layout the five phishing builders share: the greeting with the name
\* put into the f-string as it is, and the call-to-action link
ScenarioLayout(greeting, action, ctx, click) ==
    LET html == <<"<", "p", ">", greeting>> \o _safe_name(ctx)
                  \o <<"<", "/p", ">", "<", "a href=", click, ">", action,
                       "<", "/a", ">">>
    IN [text |-> strip_tags(html), html |-> html]

build_it_security_alert_body(tpl, ctx, click, report) ==
    ScenarioLayout("Hi ", "Review Account Activity", ctx, click)

build_password_reset_body(tpl, ctx, click, report) ==
    ScenarioLayout("Hello ", "Reset Password", ctx, click)

build_payroll_body(tpl, ctx, click, report) ==
    ScenarioLayout("Dear ", "View Payslip", ctx, click)

build_delivery_failure_body(tpl, ctx, click, report) ==
    ScenarioLayout("Hi ", "Review Messages", ctx, click)

build_hr_policy_body(tpl, ctx, click, report) ==
    ScenarioLayout("Dear ", "Review Policy", ctx, click)

\* render_body (services.py:34-37): the template engine puts the context
\* value in place of a placeholder, escaped
render_body(template_body, ctx) ==
    LET RECURSIVE Render(_)
        Render(b) ==
            IF b = << >> THEN << >>
            ELSE IF Head(b) = "{{ first_name }}"
              THEN escape(ctx.first_name) \o Render(Tail(b))
            ELSE <<Head(b)>> \o Render(Tail(b))
    IN Render(template_body)

\* services.py:386-465: the rendered template body, escaped, as a paragraph;
\* neither URL is used
build_general_email_body(tpl, ctx, click, report) ==
    LET body_rendered == IF tpl.body # EmptyStr THEN render_body(tpl.body, ctx)
                         ELSE EmptyStr
        line == Strip(body_rendered)
        body_html == IF line # EmptyStr
                       THEN <<"<", "p", ">">> \o escape(line) \o <<"<", "/p", ">">>
                     ELSE <<"<", "p", ">", "&nbsp;", "<", "/p", ">">>
        html == body_html \o <<"<", "p", ">", "Kind regards, NepSoftware", "<", "/p", ">">>
        text_body == IF body_rendered # EmptyStr THEN strip_tags(body_rendered)
                     ELSE EmptyStr
    IN [text |-> text_body \o <<"Kind regards, NepSoftware">>,
        html |-> html]

\* SCENARIO_BUILDERS.get(tpl.scenario, build_it_security_alert_body)
\* (services.py:468-475, 526), applied
SCENARIO_BUILDERS(tpl, ctx, click, report) ==
    IF tpl.scenario = "PASSWORD_RESET" THEN build_password_reset_body(tpl, ctx, click, report)
    ELSE IF tpl.scenario = "PAYROLL" THEN build_payroll_body(tpl, ctx, click, report)
    ELSE IF tpl.scenario = "DELIVERY" THEN build_delivery_failure_body(tpl, ctx, click, report)
    ELSE IF tpl.scenario = "HR_POLICY" THEN build_hr_policy_body(tpl, ctx, click, report)
    ELSE IF tpl.scenario = "GENERAL" THEN build_general_email_body(tpl, ctx, click, report)
    ELSE build_it_security_alert_body(tpl, ctx, click, report)

ReportFooter ==
    "If you did not expect this message, please contact IT Support or report it here: "

\* the footer appended for every scenario, GENERAL included
AppendFooterAlways(tpl, text_main, report) == text_main \o <<ReportFooter, report>>

\* services.py:530-537
AppendFooter(tpl, text_main, report) ==
    IF tpl.scenario = "GENERAL" THEN text_main
    ELSE text_main \o <<ReportFooter, report>>

\* services.py:501-554: what the loop body renders for the template tpl, the
\* Recipient rec and the link's tracking_id
RenderMessage(tpl, rec, tracking_id) ==
    LET ctx == Context(rec)
        main == SCENARIO_BUILDERS(tpl, ctx, click_url(tracking_id),
                                  report_url(tracking_id))
    IN [body_text |-> AppendFooter(tpl, main.text, report_url(tracking_id)),
        body_html |-> <<"<", "body", ">">> \o main.html
                        \o <<"<", "img src=", open_url(tracking_id), ">",
                             "<", "/body", ">">>]

\* the EmailMultiAlternatives of services.py:556-562 for the link cr
Message(campaign, cr) ==
    LET rec == recipients[links[cr].recipient]
        tpl == templates[campaigns[campaign].email_template]
        m == RenderMessage(tpl, rec, links[cr].tracking_id)
    IN [campaign |-> campaign, recipient |-> cr, to |-> rec.email,
        body_text |-> m.body_text, body_html |-> m.body_html]

\* the CampaignEmail row of services.py:565-571; is_read defaults to False
CampaignEmail(campaign, cr) ==
    [campaign |-> campaign, recipient |-> cr, is_read |-> FALSE]

\* the loop body with the CampaignEmail row created before msg.send()
SendOnePersistFirst(acc, campaign, cr, failing) ==
    LET saved == [acc EXCEPT !.sent_emails =
                      Append(@, CampaignEmail(campaign, cr))]
    IN IF cr \in failing
         THEN [saved EXCEPT !.raised = TRUE]
       ELSE [saved EXCEPT !.outbox = Append(@, Message(campaign, cr))]

\* one pass of the loop body (services.py:498-571) for the link cr: the
\* message is built, msg.send() hands it to the transport, which raises for
\* the links in failing, and only then is the CampaignEmail row created
SendOne(acc, campaign, cr, failing) ==
    IF cr \in failing
      THEN [acc EXCEPT !.raised = TRUE]
    ELSE [acc EXCEPT !.outbox = Append(@, Message(campaign, cr)),
                     !.sent_emails = Append(@, CampaignEmail(campaign, cr))]

\* "for cr in cr_qs": an exception of msg.send() leaves the loop
RECURSIVE SendLoop(_, _, _, _)
SendLoop(acc, campaign, todo, failing) ==
    IF todo = << >> \/ acc.raised THEN acc
    ELSE SendLoop(SendOne(acc, campaign, Head(todo), failing), campaign,
                  Tail(todo), failing)

\* send_campaign_emails(campaign); failing are the links whose hand-off the
\* transport refuses
send_campaign_emails(campaign, failing) ==
    SendLoop([outbox |-> outbox, sent_emails |-> sent_emails, raised |-> FALSE],
             campaign, cr_qs(campaign), failing)

\* POST of the send_campaign view (views.py:362-379): the redirect after the
\* loop, or the unhandled error of the transport
send_campaign(campaign, failing) ==
    /\ Len(outbox) < MaxOutbox
    /\ LET r == send_campaign_emails(campaign, failing)
       IN /\ outbox' = r.outbox
          /\ sent_emails' = r.sent_emails
          /\ resp' = IF r.raised THEN 500 ELSE 302
          /\ location' = IF r.raised THEN "" ELSE campaign_detail_url(campaign)
    /\ UNCHANGED <<recipients, links, events, imp>>

\* log_action(request, "Sent campaign emails", ...) after the loop
\* (views.py:370-374); nothing is logged when the loop raised
SentLog(user) ==
    logged' = IF resp' = 302
                THEN <<log_action(Request(user), "Sent campaign emails")>>
              ELSE << >>

LinkIdsOf(campaign) == {i \in 1..Len(links) : links[i].campaign = campaign}

(***************************************************************************)
(* Specifications.                                                         *)
(***************************************************************************)
capture ==
    \/ \E t \in Tokens : track_open(t)
    \/ \E t \in Tokens : track_click(t)
    \/ \E t \in Tokens : track_report(t)

admin == \E i \in 1..Len(links), flag \in BOOLEAN : admin_set_active(i, flag)

dispatch ==
    \E c \in Campaigns : \E failing \in SUBSET LinkIdsOf(c) :
        send_campaign(c, failing) /\ SentLog(Sender)

\* every request of the core, imports interleaved line by line with the rest
Next ==
    \/ import_recipients_from_csv /\ UNCHANGED <<upload, hist, others>>
    \/ capture /\ UNCHANGED <<upload, hist, others>>
    \/ admin /\ UNCHANGED <<upload, hist, others>>
    \/ dispatch /\ UNCHANGED <<upload, hist, others>>

Spec == Init /\ [][Next]_vars

\* the import pipeline alone, on files of up to MaxRows lines
NextImport == import_recipients_from_csv /\ UNCHANGED <<upload, hist, others>>

SpecImport == Init /\ [][NextImport]_vars

\* link rows as the tests' setUp creates them (tests.py:72-79): tables that
\* imports of one-line files produce from the empty database
Link(campaign, rid, tok) ==
    [campaign |-> campaign, recipient |-> rid, tracking_id |-> tok, is_active |-> TRUE]

Rec(email) ==
    [email |-> email, first_name |-> EmptyStr, last_name |-> EmptyStr,
     department |-> EmptyStr]

SeedDBs ==
    { [recipients |-> << >>, links |-> << >>],
      [recipients |-> <<Rec(addr_a)>>, links |-> <<Link(1, 1, 1)>>],
      [recipients |-> <<Rec(addr_a), Rec(addr_b)>>, links |-> <<Link(1, 1, 1)>>],
      [recipients |-> <<Rec(addr_a), Rec(addr_b)>>,
       links |-> <<Link(1, 1, 1), Link(1, 2, 2)>>],
      [recipients |-> <<Rec(addr_a), Rec(addr_b)>>,
       links |-> <<Link(1, 1, 1), Link(2, 2, 2)>>] }

\* the scenarios of the first template of the populated database
SeedScenarios == {"IT_ALERT", "PAYROLL"}

InitSeeded ==
    /\ \E db \in SeedDBs : recipients = db.recipients /\ links = db.links
    /\ events = EmptyBag
    /\ outbox = << >>
    /\ sent_emails = << >>
    /\ imp = ImpIdle
    /\ resp = 0
    /\ upload = NoUpload
    /\ hist = << >>
    /\ location = ""
    /\ \E s \in SeedScenarios :
          templates = <<[scenario |-> s, body |-> EmptyStr],
                        [scenario |-> "GENERAL", body |-> <<"Hello ", "{{ first_name }}">>]>>
    /\ campaigns = <<Campaign(1, "inst"), Campaign(2, "inst")>>
    /\ render = NoRender
    /\ workers = << >>
    /\ settings = DefaultSettings
    /\ client = DefaultClient
    /\ logged = << >>

\* capture, dispatch and the admin's switch on a populated database
NextTrack ==
    \/ capture /\ UNCHANGED <<upload, hist, others>>
    \/ admin /\ UNCHANGED <<upload, hist, others>>
    \/ dispatch /\ UNCHANGED <<upload, hist, others>>

SpecTrack == InitSeeded /\ [][NextTrack]_vars

\* the same file imported into the same campaign twice in a row: the file is
\* any file of valid, pairwise distinct (case-insensitively) emails
GoodHeader == <<"email", "first_name">>

FullLines == { <<e, n>> : e \in EmailCells, n \in NameCells }

ValidDistinct(lines) ==
    /\ \A i \in 1..Len(lines) : validate_email(Strip(lines[i][1]))
    /\ \A i, j \in 1..Len(lines) :
          i # j => Lower(Strip(lines[i][1])) # Lower(Strip(lines[j][1]))

UploadFiles ==
    { f \in UNION { [1..n -> FullLines] : n \in 1..MaxRows } : ValidDistinct(f) }

InitTwice ==
    /\ \E db \in SeedDBs : recipients = db.recipients /\ links = db.links
    /\ events = EmptyBag
    /\ outbox = << >>
    /\ sent_emails = << >>
    /\ imp = ImpIdle
    /\ resp = 0
    /\ upload \in [campaign : Campaigns, lines : UploadFiles]
    /\ hist = << >>
    /\ location = ""
    /\ templates = DefaultTemplates
    /\ campaigns = DefaultCampaigns
    /\ render = NoRender
    /\ workers = << >>
    /\ settings = DefaultSettings
    /\ client = DefaultClient
    /\ logged = << >>

\* what a finished import returned, and the tables it left
Returned ==
    [status |-> imp'.status, created_count |-> imp'.created_count,
     linked_count |-> imp'.linked_count, error_rows |-> imp'.error_rows,
     error_details |-> imp'.error_details,
     recipients |-> recipients', links |-> links']

NextTwice ==
    \/ /\ Len(hist) < 2
       /\ ImportBegin(upload.campaign, TRUE, GoodHeader, TRUE)
       /\ UNCHANGED <<upload, hist, others>>
    \/ /\ imp.pc = "rows"
       /\ \E tok \in Tokens, fault \in BOOLEAN :
             ImportRow(upload.lines[imp.row_num], tok, fault,
                       imp.row_num = Len(upload.lines))
       /\ hist' = IF imp'.pc = "done" THEN Append(hist, Returned) ELSE hist
       /\ UNCHANGED <<upload, others>>

SpecTwice == InitTwice /\ [][NextTwice]_vars

(***************************************************************************)
(* Claims.                                                                 *)
(***************************************************************************)
EndpointOf(t, event_type) ==
    IF event_type = "OPEN" THEN track_open(t)
    ELSE IF event_type = "CLICK" THEN track_click(t)
    ELSE track_report(t)

\* C1: a call of a capture endpoint with a token adds exactly one Event of the
\* endpoint's type for the link owning the token when that link exists and is
\* active, and otherwise answers Not-Found and adds no Event; this holds for
\* every call, repeated ones included.
C1_CaptureAddsOneEventOrNotFound ==
    [][\A t \in Tokens, ty \in EventTypes :
          EndpointOf(t, ty) =>
             LET owners == {i \in 1..Len(links) : links[i].tracking_id = t}
             IN IF \E i \in owners : links[i].is_active
                  THEN /\ resp' \in {200, 302}
                       /\ BagCardinality(events') = BagCardinality(events) + 1
                       /\ \E i \in owners :
                             /\ links[i].is_active
                             /\ LET e == Event(i, ty)
                                IN CopiesIn(e, events') = CopiesIn(e, events) + 1
                ELSE /\ resp' = 404
                     /\ events' = events]_vars

\* two Events of one type for one link, then Not-Found for a deactivated link
C1_Witness ==
    /\ resp = 404
    /\ \E i \in 1..Len(links) : ~links[i].is_active
    /\ \E e \in BagToSet(events) : CopiesIn(e, events) = 2

\* the links that got a message, and those that got a CampaignEmail row, in
\* the step
HandedInStep ==
    {outbox'[k].recipient : k \in (Len(outbox) + 1)..Len(outbox')}

PersistedInStep ==
    {sent_emails'[k].recipient : k \in (Len(sent_emails) + 1)..Len(sent_emails')}

ActiveLinkIdsOf(campaign) == {i \in LinkIdsOf(campaign) : links[i].is_active}

\* C2: send(campaign) hands a message over and persists a SentMessage for
\* exactly the active links of the campaign; a link that is inactive at send
\* time gets neither.
C2_SendReachesExactlyActiveLinks ==
    [][\A c \in Campaigns : \A failing \in SUBSET LinkIdsOf(c) :
          send_campaign(c, failing) =>
             /\ HandedInStep \subseteq ActiveLinkIdsOf(c)
             /\ PersistedInStep \subseteq ActiveLinkIdsOf(c)
             /\ resp' = 302 => HandedInStep = ActiveLinkIdsOf(c)]_vars

\* C3: in send(campaign), a transport failure for one recipient does not keep
\* the other links from being processed: every active link whose own hand-off
\* succeeds gets its message and its SentMessage.
C3_FailureDoesNotStopOtherRecipients ==
    [][\A c \in Campaigns : \A failing \in SUBSET LinkIdsOf(c) :
          send_campaign(c, failing) =>
             \A i \in ActiveLinkIdsOf(c) \ failing :
                 i \in HandedInStep /\ i \in PersistedInStep]_vars

\* C4: every SentMessage follows a successful hand-off of the same message:
\* the k-th SentMessage is for the campaign and link of the k-th message the
\* transport accepted, and a refused hand-off leaves no SentMessage.
C4_SentMessageOnlyAfterHandOff ==
    /\ Len(sent_emails) = Len(outbox)
    /\ \A k \in 1..Len(sent_emails) :
          /\ sent_emails[k].campaign = outbox[k].campaign
          /\ sent_emails[k].recipient = outbox[k].recipient

\* a send that was refused after an earlier hand-off had succeeded
C4_Witness == resp = 500 /\ Len(outbox) >= 1 /\ Len(sent_emails) >= 1

\* C5: the import fails with the limit-exceeded error if and only if the file
\* has more than MAX_RECIPIENTS data rows.  (Stated for the calls whose number
\* of data rows is known: row_num - 1 when the file had no further line.)
C5_LimitExceededIffTooManyRows ==
    (imp.pc = "done" /\ ~imp.more /\ imp.status \in {"ok", "limit"})
        => (imp.status = "limit" <=> imp.row_num - 1 > MAX_RECIPIENTS)

\* C6: a fatal failure of the import (encoding, missing column, no data rows,
\* limit exceeded, or any other raised error) leaves the Recipient and the
\* CampaignRecipient tables as they were: only a step that ends an import
\* successfully changes them.
C6_FatalFailureLeavesTablesUnchanged ==
    [][imp'.status # "ok" => (recipients' = recipients /\ links' = links)]_vars

\* the limit was exceeded after rows had been created in the transaction
C6_Witness == imp.status = "limit" /\ imp.created_count > 0 /\ imp.linked_count > 0

\* C7: a storage error on a row makes the import fail as a whole; it is never
\* reported as a skipped row of an import that returns normally.
C7_StorageErrorFailsTheImport ==
    (imp.pc = "done" /\ imp.status = "ok")
        => \A k \in 1..Len(imp.error_details) : imp.error_details[k] # "Database error"

\* no row of the returned import was skipped for a storage error
NoStorageError(ret) ==
    \A k \in 1..Len(ret.error_details) : ret.error_details[k] # "Database error"

\* C8: a file of valid, distinct emails, with no more data rows than
\* MAX_RECIPIENTS, imported twice in a row into the same campaign with no
\* storage error: the second import returns created = 0 and linked = 0, and
\* leaves both tables as the first import left them.
C8_SecondImportIsIdempotent ==
    (/\ Len(hist) = 2
     /\ Len(upload.lines) <= MAX_RECIPIENTS
     /\ NoStorageError(hist[1]) /\ NoStorageError(hist[2]))
        => /\ hist[2].status = "ok"
           /\ hist[2].created_count = 0
           /\ hist[2].linked_count = 0
           /\ hist[2].recipients = hist[1].recipients
           /\ hist[2].links = hist[1].links

\* get_or_create makes the import idempotent wherever the first import
\* returned with every row imported
IdempotentAfterCompleteImport ==
    (Len(hist) = 2 /\ hist[1].status = "ok" /\ hist[1].error_rows = << >>)
        => /\ hist[2].status = "ok"
           /\ hist[2].created_count = 0
           /\ hist[2].linked_count = 0
           /\ hist[2].recipients = hist[1].recipients
           /\ hist[2].links = hist[1].links

\* C9: the rows reported in errorRows are exactly the rows with an empty
\* email, a malformed email or the email of an earlier row of the file, each
\* under its row number (header = row 1); such a row does not abort the
\* import, and every other row is imported and linked.
C9_ErrorRowsAreExactlyTheInvalidRows ==
    [][\A line \in RawRows, tok \in Tokens, fault \in BOOLEAN, last \in BOOLEAN :
          ImportRow(line, tok, fault, last) =>
             LET email == Strip(line[1])
                 invalid == \/ email = EmptyStr
                            \/ ~validate_email(email)
                            \/ Lower(email) \in imp.emails_seen_in_file
                 after == recipients' \o imp'.txRecipients
                 linksAfter == links' \o imp'.txLinks
             IN /\ imp'.status \in {"running", "ok"}
                /\ IF invalid
                     THEN imp'.error_rows = Append(imp.error_rows, imp.row_num + 1)
                   ELSE /\ imp'.error_rows = imp.error_rows
                        /\ \E r \in 1..Len(after) :
                              /\ after[r].email = Lower(email)
                              /\ \E l \in 1..Len(linksAfter) :
                                    /\ linksAfter[l].recipient = r
                                    /\ linksAfter[l].campaign = imp.campaign]_vars

\* C10: the tracking tokens of distinct links are distinct, uncommitted links
\* included, and the lookup of the token of an active link finds that link
\* and no other.
C10_TokensAreUniqueAndResolve ==
    LET view == ViewLinks(imp)
    IN /\ \A i, j \in 1..Len(view) :
             i # j => view[i].tracking_id # view[j].tracking_id
       /\ \A i \in 1..Len(links) :
             links[i].is_active =>
                ActiveLinksByToken(links, links[i].tracking_id) = {i}

\* two committed links, of different campaigns
C10_Witness ==
    /\ Len(links) = 2
    /\ links[1].campaign # links[2].campaign
    /\ ActiveLinksByToken(links, links[2].tracking_id) = {2}

\* the tokens of the click URLs a message carries in its HTML body
ClickTokensOf(m) ==
    {TokenOfClickUrl(m.body_html[k]) : k \in 1..Len(m.body_html)} \ {0}

ClickEvent(cr) == Event(cr, "CLICK")

\* C11 (as stated): for every message sent, submitting the token of its click
\* URL to the click endpoint records a CLICK Event against the link the
\* message was rendered for and redirects to the landing page of that token.
C11_ClickRoundTripAlways ==
    [][\A k \in 1..Len(outbox) : \A t \in ClickTokensOf(outbox[k]) :
          track_click(t) =>
             LET cr == outbox[k].recipient
             IN /\ resp' = 302
                /\ location' = landing_url(t)
                /\ events' = events (+) SetToBag({ClickEvent(cr)})]_vars

\* C11 (amended): the same, while the link the message was rendered for is
\* active; once the link is inactive the click answers Not-Found and records
\* nothing.
C11_ClickRoundTripWhileActive ==
    [][\A k \in 1..Len(outbox) : \A t \in ClickTokensOf(outbox[k]) :
          track_click(t) =>
             LET cr == outbox[k].recipient
             IN IF links[cr].is_active
                  THEN /\ resp' = 302
                       /\ location' = landing_url(t)
                       /\ events' = events (+) SetToBag({ClickEvent(cr)})
                ELSE /\ resp' = 404
                     /\ location' = ""
                     /\ events' = events]_vars

\* a click on the URL of a sent message has been recorded and redirected
C11_Witness ==
    \E k \in 1..Len(outbox) : \E t \in ClickTokensOf(outbox[k]) :
        /\ resp = 302
        /\ location = landing_url(t)
        /\ CopiesIn(ClickEvent(outbox[k].recipient), events) >= 1
        /\ links[outbox[k].recipient].tracking_id = t

(***************************************************************************)
(* Two imports at once (services.py:638-712, one valid data row each).     *)
(* Each import runs in its own transaction (READ COMMITTED): a statement   *)
(* sees the committed rows and the rows of its own transaction.            *)
(***************************************************************************)
\* the e-mail cells of the two uploaded rows
WorkerEmails == {addr_a, addr_A, addr_b}

\* a request that has entered "with transaction.atomic()" with its row read
\* and validated (services.py:638-672)
Worker(campaign, email) ==
    [pc |-> "get_recipient", campaign |-> campaign, email_lower |-> Lower(email),
     rid |-> 0, newRecipient |-> FALSE, newLink |-> FALSE, error |-> FALSE]

InitConcurrent ==
    /\ \E db \in SeedDBs : recipients = db.recipients /\ links = db.links
    /\ events = EmptyBag
    /\ outbox = << >>
    /\ sent_emails = << >>
    /\ imp = ImpIdle
    /\ resp = 0
    /\ upload = NoUpload
    /\ hist = << >>
    /\ location = ""
    /\ templates = DefaultTemplates
    /\ campaigns = DefaultCampaigns
    /\ render = NoRender
    /\ \E c1 \in Campaigns, c2 \in Campaigns, e1 \in WorkerEmails, e2 \in WorkerEmails :
          workers = <<Worker(c1, e1), Worker(c2, e2)>>
    /\ settings = DefaultSettings
    /\ client = DefaultClient
    /\ logged = << >>

\* the SELECT of Recipient.objects.get_or_create(email=email_lower)
\* (services.py:686): more than one row raises MultipleObjectsReturned, which
\* services.py:708 records as a row error
Recipient_get(w) ==
    /\ workers[w].pc = "get_recipient"
    /\ LET found == RecipientsByEmail(recipients, workers[w].email_lower)
       IN workers' =
            [workers EXCEPT ![w] =
               IF Cardinality(found) > 1
                 THEN [@ EXCEPT !.pc = "commit", !.error = TRUE]
               ELSE IF found = {}
                 THEN [@ EXCEPT !.pc = "create_recipient"]
               ELSE [@ EXCEPT !.pc = "get_link", !.rid = CHOOSE i \in found : TRUE]]
    /\ UNCHANGED <<recipients, links>>

\* the INSERT of the same get_or_create: Recipient.email carries an index
\* and no unique constraint (models.py:107, 113-117), so it always succeeds
Recipient_create(w) ==
    /\ workers[w].pc = "create_recipient"
    /\ workers' = [workers EXCEPT ![w] = [@ EXCEPT !.pc = "get_link",
                                                   !.newRecipient = TRUE]]
    /\ UNCHANGED <<recipients, links>>

\* the SELECT of CampaignRecipient.objects.get_or_create(campaign, recipient)
\* (services.py:700-703)
CampaignRecipient_get(w) ==
    /\ workers[w].pc = "get_link"
    /\ workers' =
         [workers EXCEPT ![w] =
            IF /\ ~workers[w].newRecipient
               /\ LinksOfPair(links, workers[w].campaign, workers[w].rid) # {}
              THEN [@ EXCEPT !.pc = "commit"]
            ELSE [@ EXCEPT !.pc = "create_link"]]
    /\ UNCHANGED <<recipients, links>>

\* another open transaction has inserted the same (campaign, recipient)
PairHeldByOther(w) ==
    \E v \in DOMAIN workers :
        /\ v # w
        /\ workers[v].newLink /\ workers[v].pc # "done"
        /\ ~workers[v].newRecipient /\ ~workers[w].newRecipient
        /\ workers[v].campaign = workers[w].campaign
        /\ workers[v].rid = workers[w].rid

\* the INSERT of the same get_or_create, under unique_together(campaign,
\* recipient) (models.py:205-207): it waits for an open transaction holding
\* the pair; on IntegrityError get_or_create reads the committed row
CampaignRecipient_create(w) ==
    /\ workers[w].pc = "create_link"
    /\ ~PairHeldByOther(w)
    /\ workers' =
         [workers EXCEPT ![w] =
            IF /\ ~workers[w].newRecipient
               /\ LinksOfPair(links, workers[w].campaign, workers[w].rid) # {}
              THEN [@ EXCEPT !.pc = "commit"]
            ELSE [@ EXCEPT !.pc = "commit", !.newLink = TRUE]]
    /\ UNCHANGED <<recipients, links>>

\* uuid.uuid4 (models.py:199): a value no link carries
uuid4 == CHOOSE t \in 1..(Len(links) + 1) : ~TrackingIdTaken(links, t)

\* "with transaction.atomic()" is left (services.py:638): the rows become
\* visible to the other transaction
atomic_exit(w) ==
    /\ workers[w].pc = "commit"
    /\ LET rid == IF workers[w].newRecipient THEN Len(recipients) + 1
                  ELSE workers[w].rid
       IN /\ recipients' = IF workers[w].newRecipient
                             THEN Append(recipients, Rec(workers[w].email_lower))
                           ELSE recipients
          /\ links' = IF workers[w].newLink
                        THEN Append(links, Link(workers[w].campaign, rid, uuid4))
                      ELSE links
          /\ workers' = [workers EXCEPT ![w] = [@ EXCEPT !.pc = "done", !.rid = rid]]

NextConcurrent ==
    /\ \E w \in DOMAIN workers :
          \/ Recipient_get(w)
          \/ Recipient_create(w)
          \/ CampaignRecipient_get(w)
          \/ CampaignRecipient_create(w)
          \/ atomic_exit(w)
    /\ UNCHANGED <<events, outbox, sent_emails, imp, resp, upload, hist, location,
                   templates, campaigns, render, settings, client, logged>>

SpecConcurrent == InitConcurrent /\ [][NextConcurrent]_vars

\* C12: after any interleaving of imports there is at most one Recipient per
\* lower-cased e-mail address.
C12_OneRecipientPerEmail ==
    \A i \in DOMAIN recipients : \A j \in DOMAIN recipients :
        Lower(recipients[i].email) = Lower(recipients[j].email) => i = j

\* the links of a campaign whose Recipient carries the address
LinksOfCampaignEmail(campaign, email_lower) ==
    {i \in DOMAIN links : /\ links[i].campaign = campaign
                          /\ recipients[links[i].recipient].email = email_lower}

\* C13: two imports at once into one campaign with one e-mail address both
\* complete without a row error, and exactly one CampaignLink exists for
\* that campaign and address.
C13_ConcurrentImportsLeaveOneLink ==
    (/\ Len(workers) = 2
     /\ workers[1].pc = "done" /\ workers[2].pc = "done"
     /\ workers[1].campaign = workers[2].campaign
     /\ workers[1].email_lower = workers[2].email_lower)
    => /\ ~workers[1].error /\ ~workers[2].error
       /\ Cardinality(LinksOfCampaignEmail(workers[1].campaign,
                                            workers[1].email_lower)) = 1

\* the same for an address that had its Recipient before the two imports
\* began: the race on the link alone is settled by get_or_create
OneLinkWhenRecipientExisted ==
    (/\ Len(workers) = 2
     /\ workers[1].pc = "done" /\ workers[2].pc = "done"
     /\ workers[1].campaign = workers[2].campaign
     /\ workers[1].email_lower = workers[2].email_lower
     /\ ~workers[1].newRecipient /\ ~workers[2].newRecipient)
    => /\ ~workers[1].error /\ ~workers[2].error
       /\ Cardinality(LinksOfCampaignEmail(workers[1].campaign,
                                            workers[1].email_lower)) = 1

(***************************************************************************)
(* Users and the campaign page with its metrics (views.py:131-188).        *)
(***************************************************************************)
\* redirect_to_login (settings.py:153)
LOGIN_URL == "/login/"

\* Event.objects.filter(campaign_recipient__campaign=campaign) (views.py:167)
EventsOfCampaign(evs, lks, campaign) ==
    LET S == {e \in BagToSet(evs) : lks[e.campaign_recipient].campaign = campaign}
    IN [e \in S |-> evs[e]]

\* events.filter(event_type=...) (views.py:169-171)
FilterEventType(evs, event_type) ==
    LET S == {e \in BagToSet(evs) : e.event_type = event_type}
    IN [e \in S |-> evs[e]]

\* .values("campaign_recipient"): one value per Event row
values_campaign_recipient(evs) ==
    LET S == {e.campaign_recipient : e \in BagToSet(evs)}
    IN [i \in S |-> BagCardinality([e \in {x \in BagToSet(evs) : x.campaign_recipient = i}
                                      |-> evs[e]])]

\* .count() of the values, every row counted
count(vals) == BagCardinality(vals)

\* .distinct().count() of the values
distinct_count(vals) == Cardinality(BagToSet(vals))

\* recipients.count() (views.py:160-164, 168)
total_recipients(lks, campaign) ==
    Cardinality({i \in 1..Len(lks) : lks[i].campaign = campaign})

unique_metric(evs, lks, campaign, event_type) ==
    distinct_count(values_campaign_recipient(
        FilterEventType(EventsOfCampaign(evs, lks, campaign), event_type)))

\* the metrics dictionary of views.py:173-178
metrics(evs, lks, campaign) ==
    [total_recipients |-> total_recipients(lks, campaign),
     unique_opens |-> unique_metric(evs, lks, campaign, "OPEN"),
     unique_clicks |-> unique_metric(evs, lks, campaign, "CLICK"),
     unique_reports |-> unique_metric(evs, lks, campaign, "REPORT")]

\* GET /campaigns/<pk>/ (views.py:131-188)
campaign_detail(user, pk) ==
    /\ logged' = IF ~user.is_authenticated \/ pk \notin DOMAIN campaigns
                    THEN << >>
                  ELSE IF user.role = "VIEWER" /\ campaigns[pk].created_by # user.username
                    THEN <<log_action(Request(user),
                                      "Permission denied - unauthorized campaign access")>>
                  ELSE <<log_action(Request(user), "Viewed campaign detail")>>
    /\ IF ~user.is_authenticated
         THEN resp' = 302 /\ location' = LOGIN_URL /\ render' = NoRender
       ELSE IF pk \notin DOMAIN campaigns
         THEN resp' = 404 /\ location' = "" /\ render' = NoRender
       ELSE IF user.role = "VIEWER" /\ campaigns[pk].created_by # user.username
         THEN resp' = 404 /\ location' = "" /\ render' = NoRender
       ELSE /\ resp' = 200
            /\ location' = ""
            /\ render' = [done |-> TRUE, campaign |-> pk,
                          metrics |-> metrics(events, links, pk)]
    /\ UNCHANGED <<recipients, links, events, outbox, sent_emails, imp, upload,
                   hist, templates, campaigns, workers, settings, client>>

\* events captured on a populated database, and the campaign page
NextMetrics ==
    \/ capture /\ UNCHANGED <<upload, hist, others>>
    \/ \E user \in Requesters, pk \in 1..(Len(campaigns) + 1) : campaign_detail(user, pk)

SpecMetrics == InitSeeded /\ [][NextMetrics]_vars

\* the number of Event rows of one type for the links of a campaign
RawCount(evs, lks, campaign, event_type) ==
    BagCardinality(FilterEventType(EventsOfCampaign(evs, lks, campaign), event_type))

\* the links of a campaign with at least one Event of the type
LinksWithEvent(evs, lks, campaign, event_type) ==
    {i \in 1..Len(lks) :
        /\ lks[i].campaign = campaign
        /\ CopiesIn(Event(i, event_type), evs) >= 1}

MetricOfType(m, event_type) ==
    IF event_type = "OPEN" THEN m.unique_opens
    ELSE IF event_type = "CLICK" THEN m.unique_clicks
    ELSE m.unique_reports

\* C14: the unique-opens, unique-clicks and unique-reports metrics the
\* campaign page shows equal the number of distinct links of the campaign
\* with at least one Event of the type and never exceed the number of links;
\* a further Event raises the raw count by one and the unique metric by at
\* most one, and by nothing when the link already had an Event of the type.
C14_UniqueMetricsCountDistinctLinks ==
    [][\A c \in DOMAIN campaigns : \A ty \in EventTypes :
          LET before == unique_metric(events, links, c, ty)
              after == unique_metric(events', links', c, ty)
              raw == RawCount(events, links, c, ty)
              raw2 == RawCount(events', links', c, ty)
          IN /\ (render'.done /\ render'.campaign = c /\ render' # render) =>
                   /\ MetricOfType(render'.metrics, ty)
                        = Cardinality(LinksWithEvent(events, links, c, ty))
                   /\ MetricOfType(render'.metrics, ty)
                        <= render'.metrics.total_recipients
             /\ after <= total_recipients(links', c)
             /\ raw2 \in {raw, raw + 1}
             /\ after - before \in {0, 1}
             /\ after - before <= raw2 - raw
             /\ \A i \in LinksWithEvent(events, links, c, ty) :
                   events' = events (+) SetToBag({Event(i, ty)})
                   => raw2 = raw + 1 /\ after = before]_vars

\* the campaign page shows one unique open for a campaign whose one opened
\* link has MaxEvents OPEN Events
C14_Witness ==
    /\ render.done
    /\ render.metrics.unique_opens = 1
    /\ render.metrics.total_recipients >= 1
    /\ RawCount(events, links, render.campaign, "OPEN") = MaxEvents

(***************************************************************************)
(* The message of one link (services.py:498-554), for every template,      *)
(* Recipient and token.                                                    *)
(***************************************************************************)
InitRender ==
    /\ recipients = << >>
    /\ links = << >>
    /\ events = EmptyBag
    /\ outbox = << >>
    /\ sent_emails = << >>
    /\ imp = ImpIdle
    /\ resp = 0
    /\ upload = NoUpload
    /\ hist = << >>
    /\ location = ""
    /\ templates = DefaultTemplates
    /\ campaigns = DefaultCampaigns
    /\ \E s \in Scenarios, b \in TemplateBodies, f \in Names, l \in Names, t \in Tokens :
          render = [done |-> FALSE,
                    tpl |-> [scenario |-> s, body |-> b],
                    rec |-> [email |-> addr_a, first_name |-> f, last_name |-> l],
                    tracking_id |-> t]
    /\ workers = << >>
    /\ settings = DefaultSettings
    /\ client = DefaultClient
    /\ logged = << >>

\* the loop body of send_campaign_emails up to the finished bodies
render_message ==
    /\ ~render.done
    /\ LET m == RenderMessage(render.tpl, render.rec, render.tracking_id)
       IN render' = [render EXCEPT !.done = TRUE] @@ m
    /\ UNCHANGED <<recipients, links, events, outbox, sent_emails, imp, resp, upload,
                   hist, location, templates, campaigns, workers, settings, client, logged>>

NextRender == render_message

SpecRender == InitRender /\ [][NextRender]_vars

\* the text carries the report footer followed by the URL
HasReportFooter(text, url) ==
    \E k \in 1..(Len(text) - 1) : text[k] = ReportFooter /\ text[k + 1] = url

\* C15: the plain-text body carries the report footer with the link's report
\* URL if and only if the template's scenario is not GENERAL; an unknown or
\* unset scenario is rendered by the security-alert builder and carries it.
C15_ReportFooterIffNotGeneral ==
    render.done =>
       /\ HasReportFooter(render.body_text, report_url(render.tracking_id))
             <=> render.tpl.scenario # "GENERAL"
       /\ render.tpl.scenario \in {"OTHER", ""} =>
             render.body_text
               = RenderMessage([render.tpl EXCEPT !.scenario = "IT_ALERT"],
                               render.rec, render.tracking_id).body_text

\* a message of an unset scenario has been rendered with the footer
C15_Witness ==
    /\ render.done
    /\ render.tpl.scenario = ""
    /\ HasReportFooter(render.body_text, report_url(render.tracking_id))

\* the HTML carries a link to the URL
HasLinkTo(html, url) ==
    \E k \in 1..(Len(html) - 1) : html[k] = "a href=" /\ html[k + 1] = url

\* C16: for every scenario, GENERAL included, the HTML body contains the
\* click URL of the link it was rendered for as a call-to-action link.
C16_HtmlCarriesClickUrl ==
    render.done => HasLinkTo(render.body_html, click_url(render.tracking_id))

\* the same for the five scenarios with a builder of their own and for the
\* fallback
HtmlCarriesClickUrlUnlessGeneral ==
    (render.done /\ render.tpl.scenario # "GENERAL")
       => HasLinkTo(render.body_html, click_url(render.tracking_id))

\* the text names the token: one of the token's URLs, or the token itself
ContainsToken(text, tracking_id) ==
    \E k \in 1..Len(text) :
        text[k] \in {ToString(tracking_id), click_url(tracking_id),
                     report_url(tracking_id), open_url(tracking_id)}

\* C17: after a POST of send for a campaign with n links exactly n messages
\* have been handed to the transport, one per link, and the plain-text body
\* of each contains the tracking token of its link, for every scenario.
C17_SendHandsOneMessagePerLinkWithToken ==
    [][\A c \in Campaigns : \A failing \in SUBSET LinkIdsOf(c) :
          send_campaign(c, failing) =>
             /\ Len(outbox') = Len(outbox) + Cardinality(LinkIdsOf(c))
             /\ HandedInStep = LinkIdsOf(c)
             /\ \A k \in (Len(outbox) + 1)..Len(outbox') :
                   ContainsToken(outbox'[k].body_text,
                                 links[outbox'[k].recipient].tracking_id)]_vars

\* the same for the sends the transport accepts in full, of campaigns whose
\* template is not of scenario GENERAL
SendCarriesTokenUnlessGeneral ==
    [][\A c \in Campaigns :
          (send_campaign(c, {})
             /\ templates[campaigns[c].email_template].scenario # "GENERAL") =>
             /\ Len(outbox') = Len(outbox) + Cardinality(LinkIdsOf(c))
             /\ HandedInStep = LinkIdsOf(c)
             /\ \A k \in (Len(outbox) + 1)..Len(outbox') :
                   ContainsToken(outbox'[k].body_text,
                                 links[outbox'[k].recipient].tracking_id)]_vars

\* the name carries markup
HasMarkup(name) == \E k \in 1..Len(name) : name[k] \in {"<", ">", "&"}

\* the name stands in the HTML as it was supplied
Verbatim(name, html) ==
    \E k \in 0..(Len(html) - Len(name)) : SubSeq(html, k + 1, k + Len(name)) = name

\* C18: for no scenario does a recipient's first or last name that contains
\* markup reach the HTML body verbatim.
C18_NamesAreEscapedInHtml ==
    render.done =>
       \A name \in {render.rec.first_name, render.rec.last_name} :
           HasMarkup(name) => ~Verbatim(name, render.body_html)

\* the same for scenario GENERAL, whose builder escapes what it renders
NamesAreEscapedInGeneralHtml ==
    (render.done /\ render.tpl.scenario = "GENERAL") =>
       \A name \in {render.rec.first_name, render.rec.last_name} :
           HasMarkup(name) => ~Verbatim(name, render.body_html)

(***************************************************************************)
(* The mutating views behind role_required (accounts/decorators.py:14-61,  *)
(* views.py:59-72, 114-128, 191-263, 362-379).  AuditLog is only ever      *)
(* appended to: "logged" holds the rows the last request added.            *)
(***************************************************************************)
MaxTemplates == 2

\* the decorator that lets every authenticated user through
login_required_only(user, allowed_roles) ==
    IF ~user.is_authenticated THEN "login" ELSE "view"

\* _wrapped of role_required(*allowed_roles): redirect to login, raise
\* PermissionDenied, or call the view
role_required(user, allowed_roles) ==
    IF ~user.is_authenticated THEN "login"
    ELSE IF user.role \notin allowed_roles THEN "denied"
    ELSE "view"

\* redirect_to_login(request.get_full_path()), or the 403 of PermissionDenied
Refused(access, path) ==
    /\ resp' = IF access = "login" THEN 302 ELSE 403
    /\ location' = IF access = "login" THEN LOGIN_URL \o "?next=" \o path ELSE ""

\* the AuditLog rows of a request to a view behind role_required: the row of
\* the decorator (decorators.py:47-54) if the role is refused, the rows of
\* the view if the view runs, nothing for the redirect to the login page
ViewLog(user, access, rows) ==
    logged' = IF access = "denied"
                THEN <<log_action(Request(user), "Permission denied - role check failed")>>
              ELSE IF access = "view" THEN rows
              ELSE << >>

\* POST /campaigns/templates/new/ (views.py:59-72); valid is form.is_valid()
template_create(user, valid, scenario, body) ==
    LET access == role_required(user, {"ADMIN", "INSTRUCTOR"})
    IN /\ access = "view" /\ valid => Len(templates) < MaxTemplates
       /\ IF access # "view"
            THEN Refused(access, "/campaigns/templates/new/") /\ UNCHANGED templates
          ELSE IF ~valid
            THEN resp' = 200 /\ location' = "" /\ UNCHANGED templates
          ELSE /\ templates' = Append(templates, [scenario |-> scenario, body |-> body])
               /\ resp' = 302
               /\ location' = "/campaigns/templates/"
       /\ UNCHANGED <<recipients, links, events, outbox, sent_emails, imp, upload,
                      hist, campaigns, render, workers, settings, client>>
       /\ ViewLog(user, access,
                  IF valid THEN <<log_action(Request(user), "Created email template")>>
                  ELSE << >>)

\* POST /campaigns/new/ (views.py:114-128); status is the value of the form's
\* status field (forms.py:120)
campaign_create(user, valid, email_template, status) ==
    LET access == role_required(user, {"ADMIN", "INSTRUCTOR"})
    IN /\ access = "view" /\ valid => Len(campaigns) < Cardinality(Campaigns)
       /\ IF access # "view"
            THEN Refused(access, "/campaigns/new/") /\ UNCHANGED campaigns
          ELSE IF ~valid
            THEN resp' = 200 /\ location' = "" /\ UNCHANGED campaigns
          ELSE /\ campaigns' = Append(campaigns,
                                      [Campaign(email_template, user.username)
                                          EXCEPT !.status = status])
               /\ resp' = 302
               /\ location' = campaign_detail_url(Len(campaigns) + 1)
       /\ ViewLog(user, access,
                  IF valid THEN <<log_action(Request(user), "Created campaign")>>
                  ELSE << >>)
       /\ UNCHANGED <<recipients, links, events, outbox, sent_emails, imp, upload,
                      hist, templates, render, workers, settings, client>>

\* the loop of services.py:639-712 over the data lines of a file; toks are
\* the values uuid4 returns, line by line
RECURSIVE ImportLines(_, _, _)
ImportLines(st, lines, toks) ==
    IF lines = << >> \/ st.pc = "done" THEN st
    ELSE ImportLines(ProcessRow(st, Head(lines), Head(toks), FALSE),
                     Tail(lines), Tail(toks))

\* error_rows[:5] (views.py:222)
FirstRows(rows) ==
    SubSeq(rows, 1, IF Len(rows) < DETAILS_LIMIT THEN Len(rows) ELSE DETAILS_LIMIT)

\* the message of views.py:210-229 for a returned import: the counts, and for
\* error rows their number followed, for few of them, by row and reason
upload_message(st) ==
    [done |-> TRUE,
     level |-> IF st.error_rows # << >> THEN "warning" ELSE "success",
     created_count |-> st.created_count,
     linked_count |-> st.linked_count,
     error_count |-> Len(st.error_rows),
     details |-> IF st.error_rows # << >> /\ Len(st.error_rows) <= DETAILS_LIMIT
                   THEN [i \in DOMAIN FirstRows(st.error_rows) |->
                           <<st.error_rows[i], st.error_details[i]>>]
                 ELSE << >>]

\* POST /campaigns/<pk>/upload-recipients/ (views.py:191-263) with a file of
\* the header and the data lines: the import runs to its end inside the
\* request, and every outcome of it redirects to the campaign
upload_recipients(user, pk, lines, toks) ==
    LET access == role_required(user, {"ADMIN", "INSTRUCTOR"})
        path == "/campaigns/" \o ToString(pk) \o "/upload-recipients/"
        st0 == [ImpIdle EXCEPT !.campaign = pk, !.pc = "rows", !.status = "running",
                               !.fieldnames = GoodHeader, !.row_num = 1]
        st == ImportLines(st0, lines, toks)
        raised == st.pc = "done"
        end == IF raised
                 THEN [st EXCEPT !.more = FALSE, !.emails_seen_in_file = {},
                                 !.txRecipients = << >>, !.txLinks = << >>,
                                 !.txAudit = << >>]
               ELSE Finished(st)
        \* the rows the service left in AuditLog
        service == st.txAudit \o (IF raised THEN << >> ELSE SuspiciousLog(st))
    IN /\ IF access # "view"
            THEN /\ Refused(access, path)
                 /\ render' = NoRender
                 /\ UNCHANGED <<recipients, links, imp>>
          ELSE IF pk \notin DOMAIN campaigns
            THEN /\ resp' = 404 /\ location' = ""
                 /\ render' = NoRender
                 /\ UNCHANGED <<recipients, links, imp>>
          ELSE /\ recipients' = recipients \o st.txRecipients
               /\ links' = links \o st.txLinks
               /\ imp' = end
               /\ resp' = 302
               /\ location' = campaign_detail_url(pk)
               /\ render' = IF end.status = "ok"
                              THEN upload_message(end)
                            ELSE [done |-> TRUE, level |-> "error",
                                  reason |-> end.status]
       /\ ViewLog(user, access,
                  IF pk \notin DOMAIN campaigns THEN << >>
                  ELSE service \o
                       <<log_action(Request(user),
                                    IF end.status = "ok" THEN "Uploaded recipients"
                                    ELSE "CSV import failed")>>)
       /\ UNCHANGED <<events, outbox, sent_emails, upload, hist, templates,
                      campaigns, workers, settings, client>>

\* the send request marking the campaign as completed
post_send_campaign_completing(user, pk, failing) ==
    LET access == role_required(user, {"ADMIN", "INSTRUCTOR"})
    IN /\ access = "view" /\ pk \in DOMAIN campaigns
       /\ send_campaign(pk, failing)
       /\ SentLog(user)
       /\ campaigns' = [campaigns EXCEPT ![pk].status = "COMPLETED"]
       /\ UNCHANGED <<upload, hist, templates, render, workers, settings, client>>

\* POST /campaigns/<pk>/send/ behind the decorator (views.py:362-379)
post_send_campaign(user, pk, failing) ==
    LET access == role_required(user, {"ADMIN", "INSTRUCTOR"})
        path == "/campaigns/" \o ToString(pk) \o "/send/"
    IN /\ IF access # "view"
            THEN /\ Refused(access, path)
                 /\ ViewLog(user, access, << >>)
                 /\ UNCHANGED <<recipients, links, events, outbox, sent_emails, imp>>
          ELSE IF pk \notin DOMAIN campaigns
            THEN /\ resp' = 404 /\ location' = ""
                 /\ logged' = << >>
                 /\ UNCHANGED <<recipients, links, events, outbox, sent_emails, imp>>
          ELSE send_campaign(pk, failing) /\ SentLog(user)
       /\ UNCHANGED <<upload, hist, others>>

\* the data lines of the uploads
AccessLines == { <<addr_b, <<"n">>>> }

\* one template, one campaign and its one link (tests.py:56-79)
InitAccess ==
    /\ recipients = <<Rec(addr_a)>>
    /\ links = <<Link(1, 1, 1)>>
    /\ events = EmptyBag
    /\ outbox = << >>
    /\ sent_emails = << >>
    /\ imp = ImpIdle
    /\ resp = 0
    /\ upload = NoUpload
    /\ hist = << >>
    /\ location = ""
    /\ templates = DefaultTemplates
    /\ campaigns = <<Campaign(1, "inst")>>
    /\ render = NoRender
    /\ workers = << >>
    /\ settings = DefaultSettings
    /\ client = DefaultClient
    /\ logged = << >>

NextAccess ==
    \/ \E user \in Requesters, valid \in BOOLEAN :
          template_create(user, valid, "GENERAL", <<"Notice">>)
    \/ \E user \in Requesters, valid \in BOOLEAN, t \in DOMAIN templates :
          campaign_create(user, valid, t, "DRAFT")
    \/ \E user \in Requesters, pk \in Campaigns, line \in AccessLines, tok \in Tokens :
          upload_recipients(user, pk, <<line>>, <<tok>>)
    \/ \E user \in Requesters, pk \in Campaigns : post_send_campaign(user, pk, {})

SpecAccess == InitAccess /\ [][NextAccess]_vars

\* a request of one of the four mutating operations by the user
MutatingRequestBy(user) ==
    \/ \E valid \in BOOLEAN : template_create(user, valid, "GENERAL", <<"Notice">>)
    \/ \E valid \in BOOLEAN, t \in DOMAIN templates :
          campaign_create(user, valid, t, "DRAFT")
    \/ \E pk \in Campaigns, line \in AccessLines, tok \in Tokens :
          upload_recipients(user, pk, <<line>>, <<tok>>)
    \/ \E pk \in Campaigns : post_send_campaign(user, pk, {})

\* C19: import, send, template creation and campaign creation take effect
\* only for a caller authenticated with role ADMIN or INSTRUCTOR: a VIEWER
\* gets 403, an unauthenticated caller the redirect to login, and in both
\* cases no recipient, link, template, campaign or sent message is created
\* and no mail is sent.
C19_MutationsNeedAdminOrInstructor ==
    [][\A user \in Requesters :
          (user.role \notin {"ADMIN", "INSTRUCTOR"} /\ MutatingRequestBy(user)) =>
             /\ UNCHANGED <<recipients, links, templates, campaigns, sent_emails, outbox>>
             /\ user.is_authenticated => resp' = 403
             /\ ~user.is_authenticated =>
                   /\ resp' = 302
                   /\ \E path \in {"/campaigns/templates/new/", "/campaigns/new/"}
                                  \cup {"/campaigns/" \o ToString(pk) \o op :
                                          pk \in Campaigns,
                                          op \in {"/upload-recipients/", "/send/"}} :
                         location' = LOGIN_URL \o "?next=" \o path]_vars

\* a VIEWER has been refused while the tables hold what an INSTRUCTOR's
\* template, campaign, import and send left
C19_Witness ==
    /\ resp = 403
    /\ Len(templates) = MaxTemplates
    /\ Len(campaigns) = Cardinality(Campaigns)
    /\ Len(outbox) >= 1
    /\ imp.status = "ok"

(***************************************************************************)
(* The inbox (views.py:405-479) and the page of an Http404                 *)
(* (phishing_portal/urls.py:40, accounts/views.py:116-131).                *)
(***************************************************************************)
\* what the client gets for "raise Http404(reason)": with DEBUG on, Django's
\* technical 404 page, which prints the reason of the exception; with DEBUG
\* off, handler404 = custom_404_view, which renders 404.html with an empty
\* context
Http404Page(conf, reason) ==
    IF conf.DEBUG
      THEN [status |-> 404, template |-> "technical_404.html", reason |-> reason,
            location |-> ""]
    ELSE [status |-> 404, template |-> "404.html", reason |-> "", location |-> ""]

\* the message of the Http404 that get_object_or_404 raises
NoMatch == "No CampaignEmail matches the given query."

\* the access control of the two views with the check of the recipient's
\* address left out
InboxAccessWithoutOwnerCheck(conf, user, pk, path, granted) ==
    IF ~user.is_authenticated
      THEN [status |-> 302, template |-> "", reason |-> "",
            location |-> LOGIN_URL \o "?next=" \o path]
    ELSE IF pk \notin DOMAIN sent_emails
      THEN Http404Page(conf, NoMatch)
    ELSE granted

\* login_required, get_object_or_404(CampaignEmail, pk=pk) and the check of
\* the recipient's address (views.py:405-428, 444-467); granted is the
\* response of the rest of the view
InboxAccess(conf, user, pk, path, granted) ==
    IF ~user.is_authenticated
      THEN [status |-> 302, template |-> "", reason |-> "",
            location |-> LOGIN_URL \o "?next=" \o path]
    ELSE IF pk \notin DOMAIN sent_emails
      THEN Http404Page(conf, NoMatch)
    ELSE IF \/ user.email = EmptyStr
            \/ recipients[links[sent_emails[pk].recipient].recipient].email # user.email
      THEN Http404Page(conf, "Email not found")
    ELSE granted

inbox_detail_path(pk) == "/campaigns/inbox/" \o ToString(pk) \o "/"

toggle_email_read_path(pk) == "/campaigns/inbox/" \o ToString(pk) \o "/toggle-read/"

inbox_detail_response(conf, user, pk) ==
    InboxAccess(conf, user, pk, inbox_detail_path(pk),
                [status |-> 200, template |-> "campaigns/inbox_detail.html",
                 reason |-> "", location |-> ""])

toggle_email_read_response(conf, user, pk) ==
    InboxAccess(conf, user, pk, toggle_email_read_path(pk),
                [status |-> 302, template |-> "", reason |-> "",
                 location |-> "/campaigns/inbox/"])

\* the AuditLog row of the two views (views.py:421-434, 460-477): none
\* before the message is found, the refusal or the access after it
InboxLog(user, pk, refused, granted) ==
    logged' = IF ~user.is_authenticated \/ pk \notin DOMAIN sent_emails
                THEN << >>
              ELSE IF \/ user.email = EmptyStr
                      \/ recipients[links[sent_emails[pk].recipient].recipient].email
                            # user.email
                THEN <<log_action(Request(user), refused)>>
              ELSE <<log_action(Request(user), granted)>>

\* the response reaches the client
Respond(r) ==
    /\ resp' = r.status
    /\ location' = r.location
    /\ render' = [done |-> TRUE, template |-> r.template, reason |-> r.reason]

\* GET /campaigns/inbox/<pk>/ (views.py:405-441)
inbox_detail(user, pk) ==
    LET r == inbox_detail_response(settings, user, pk)
    IN /\ Respond(r)
       /\ sent_emails' = IF r.status = 200
                           THEN [sent_emails EXCEPT ![pk].is_read = TRUE]
                         ELSE sent_emails
       /\ InboxLog(user, pk, "Permission denied - unauthorized email access",
                   "Viewed email detail")
       /\ UNCHANGED <<recipients, links, events, outbox, imp, upload, hist,
                      templates, campaigns, workers, settings, client>>

\* POST /campaigns/inbox/<pk>/toggle-read/ (views.py:444-479)
toggle_email_read(user, pk) ==
    LET r == toggle_email_read_response(settings, user, pk)
    IN /\ Respond(r)
       /\ sent_emails' = IF r.status = 302 /\ user.is_authenticated
                           THEN [sent_emails EXCEPT ![pk].is_read = ~@]
                         ELSE sent_emails
       /\ InboxLog(user, pk, "Permission denied - unauthorized email modification",
                   "Toggled email read status")
       /\ UNCHANGED <<recipients, links, events, outbox, imp, upload, hist,
                      templates, campaigns, workers, settings, client>>

\* the address a CampaignEmail row was sent to (recipient__recipient__email)
RecipientEmailOf(pk) == recipients[links[sent_emails[pk].recipient].recipient].email

\* the queryset of the inbox view (views.py:391-396): every CampaignEmail,
\* filtered by the user's address if the user has one
inbox_qs(user) ==
    IF user.email # EmptyStr
      THEN {pk \in DOMAIN sent_emails : RecipientEmailOf(pk) = user.email}
    ELSE DOMAIN sent_emails

\* GET /campaigns/inbox/ (views.py:384-402)
inbox(user) ==
    /\ IF ~user.is_authenticated
         THEN /\ resp' = 302
              /\ location' = LOGIN_URL \o "?next=" \o "/campaigns/inbox/"
              /\ render' = [done |-> TRUE, template |-> "", reason |-> ""]
       ELSE /\ resp' = 200
            /\ location' = ""
            /\ render' = [done |-> TRUE, template |-> "campaigns/inbox.html",
                          reason |-> "", emails |-> inbox_qs(user),
                          user_role |-> user.role]
    /\ logged' = << >>
    /\ UNCHANGED <<recipients, links, events, outbox, sent_emails, imp, upload, hist,
                   templates, campaigns, workers, settings, client>>

\* a campaign with two links, in either configuration of DEBUG
InitInbox ==
    /\ recipients = <<Rec(addr_a), Rec(addr_b)>>
    /\ links = <<Link(1, 1, 1), Link(1, 2, 2)>>
    /\ events = EmptyBag
    /\ outbox = << >>
    /\ sent_emails = << >>
    /\ imp = ImpIdle
    /\ resp = 0
    /\ upload = NoUpload
    /\ hist = << >>
    /\ location = ""
    /\ templates = DefaultTemplates
    /\ campaigns = DefaultCampaigns
    /\ render = NoRender
    /\ workers = << >>
    /\ settings \in [DEBUG : BOOLEAN]
    /\ client = DefaultClient
    /\ logged = << >>

NextInbox ==
    \/ dispatch /\ UNCHANGED <<upload, hist, others>>
    \/ \E user \in Requesters, pk \in 1..(Len(sent_emails) + 1) : inbox_detail(user, pk)
    \/ \E user \in Requesters, pk \in 1..(Len(sent_emails) + 1) : toggle_email_read(user, pk)
    \/ \E user \in Requesters : inbox(user)

SpecInbox == InitInbox /\ [][NextInbox]_vars

\* the message pk exists and was sent to another address than the user's
SentToAnother(user, pk) ==
    /\ user.is_authenticated
    /\ pk \in DOMAIN sent_emails
    /\ recipients[links[sent_emails[pk].recipient].recipient].email # user.email

\* what the client sees of a response
Seen == <<resp, location, render>>

\* C20: a user requesting an inbox message by numeric ID gets the same
\* Not-Found response whether the message was sent to another address or does
\* not exist: the response to a request for another address's message is the
\* response the same view gives the same user for an ID that does not exist,
\* for inbox_detail and for toggle_email_read.
C20_ForeignAndMissingLookAlike ==
    [][\A user \in Users : \A pk \in DOMAIN sent_emails :
          LET missing == Len(sent_emails) + 1
              Page(r) == <<r.status, r.location,
                           [done |-> TRUE, template |-> r.template, reason |-> r.reason]>>
          IN /\ (inbox_detail(user, pk) /\ SentToAnother(user, pk)) =>
                   /\ resp' = 404
                   /\ Seen' = Page(inbox_detail_response(settings, user, missing))
                   /\ UNCHANGED sent_emails
             /\ (toggle_email_read(user, pk) /\ SentToAnother(user, pk)) =>
                   /\ resp' = 404
                   /\ Seen' = Page(toggle_email_read_response(settings, user, missing))
                   /\ UNCHANGED sent_emails]_vars

\* the same when the process runs with DEBUG off
ForeignAndMissingLookAlikeWithoutDebug ==
    [][\A user \in Users : \A pk \in DOMAIN sent_emails :
          LET missing == Len(sent_emails) + 1
              Page(r) == <<r.status, r.location,
                           [done |-> TRUE, template |-> r.template, reason |-> r.reason]>>
          IN ~settings.DEBUG =>
               /\ (inbox_detail(user, pk) /\ SentToAnother(user, pk)) =>
                     /\ resp' = 404
                     /\ Seen' = Page(inbox_detail_response(settings, user, missing))
                     /\ UNCHANGED sent_emails
               /\ (toggle_email_read(user, pk) /\ SentToAnother(user, pk)) =>
                     /\ resp' = 404
                     /\ Seen' = Page(toggle_email_read_response(settings, user, missing))
                     /\ UNCHANGED sent_emails]_vars

\* C21: for every authenticated user, whatever the role and the account's
\* address (an empty one included), the inbox list shows only SentMessages
\* whose recipient address equals the user's address.
C21_InboxShowsOnlyOwnMessages ==
    [][\A user \in Users :
          inbox(user) =>
             \A pk \in render'.emails : RecipientEmailOf(pk) = user.email]_vars

\* the same for the users whose account has an address
InboxShowsOnlyOwnMessagesWithAddress ==
    [][\A user \in Users :
          (inbox(user) /\ user.email # EmptyStr) =>
             render'.emails
               = {pk \in DOMAIN sent_emails : RecipientEmailOf(pk) = user.email}]_vars

\* the inbox together with the operations that write the other tables: event
\* capture and the upload of a one-line file
NextFlags ==
    \/ \E c \in Campaigns :
          send_campaign(c, {}) /\ SentLog(Sender) /\ UNCHANGED <<upload, hist, others>>
    \/ \E user \in Requesters, pk \in 1..(Len(sent_emails) + 1) : inbox_detail(user, pk)
    \/ \E user \in Requesters, pk \in 1..(Len(sent_emails) + 1) : toggle_email_read(user, pk)
    \/ \E t \in Tokens : track_click(t) /\ UNCHANGED <<upload, hist, others>>
    \/ \E user \in Requesters, pk \in Campaigns, line \in AccessLines, tok \in Tokens :
          upload_recipients(user, pk, <<line>>, <<tok>>)

SpecFlags == InitAccess /\ [][NextFlags]_vars

\* C22: the read flag of a SentMessage changes only through inbox_detail or
\* toggle_email_read requested by a user whose address equals the message's
\* recipient address; every other request and every other operation (import,
\* send, event capture) leaves the flag of every SentMessage as it was.
C22_ReadFlagChangesOnlyByOwner ==
    [][/\ Len(sent_emails') >= Len(sent_emails)
       /\ \A pk \in DOMAIN sent_emails :
             /\ sent_emails'[pk].is_read # sent_emails[pk].is_read =>
                   \E user \in Users :
                       inbox_detail(user, pk) \/ toggle_email_read(user, pk)
             /\ \A user \in Requesters :
                   (/\ user.email # RecipientEmailOf(pk)
                    /\ inbox_detail(user, pk) \/ toggle_email_read(user, pk))
                   => sent_emails'[pk].is_read = sent_emails[pk].is_read]_vars

\* one message has been read by its recipient, another is unread, and the
\* last request, for a message of another address, was refused
C22_Witness ==
    /\ resp = 404
    /\ \E pk \in DOMAIN sent_emails : sent_emails[pk].is_read
    /\ \E pk \in DOMAIN sent_emails : ~sent_emails[pk].is_read
    /\ BagCardinality(events) >= 1
    /\ imp.pc = "done"

(***************************************************************************)
(* The lifecycle status of a campaign (models.py:131-167).                 *)
(***************************************************************************)
\* a campaign in any status, with two links
InitStatus ==
    /\ recipients = <<Rec(addr_a), Rec(addr_b)>>
    /\ links = <<Link(1, 1, 1), Link(1, 2, 2)>>
    /\ events = EmptyBag
    /\ outbox = << >>
    /\ sent_emails = << >>
    /\ imp = ImpIdle
    /\ resp = 0
    /\ upload = NoUpload
    /\ hist = << >>
    /\ location = ""
    /\ templates = DefaultTemplates
    /\ \E status \in Status :
          campaigns = <<[Campaign(1, "inst") EXCEPT !.status = status]>>
    /\ render = NoRender
    /\ workers = << >>
    /\ settings = DefaultSettings
    /\ client = DefaultClient
    /\ logged = << >>

\* sends that complete or fail part-way, and campaigns created with a status
NextStatus ==
    \/ \E user \in Requesters, pk \in Campaigns :
          \E failing \in SUBSET LinkIdsOf(pk) : post_send_campaign(user, pk, failing)
    \/ \E user \in Requesters, valid \in BOOLEAN, t \in DOMAIN templates, status \in Status :
          campaign_create(user, valid, t, status)

SpecStatus == InitStatus /\ [][NextStatus]_vars

\* C23: dispatch never changes a campaign's lifecycle status, whether the
\* send completes or fails part-way: a send request leaves the Campaign table
\* as it was, no step changes the status of an existing campaign, and the
\* table changes only by a campaign_create request, which stores the status
\* the actor submitted.
C23_SendLeavesStatus ==
    [][/\ \A user \in Requesters, pk \in Campaigns :
             \A failing \in SUBSET LinkIdsOf(pk) :
                 post_send_campaign(user, pk, failing) => campaigns' = campaigns
       /\ \A pk \in DOMAIN campaigns :
             /\ pk \in DOMAIN campaigns'
             /\ campaigns'[pk].status = campaigns[pk].status
       /\ campaigns' # campaigns =>
             \E user \in Users, t \in DOMAIN templates, status \in Status :
                 /\ campaign_create(user, TRUE, t, status)
                 /\ campaigns'[Len(campaigns')].status = status]_vars

\* a send of an ACTIVE campaign has completed after an earlier one failed
\* part-way, and a second campaign was created as SCHEDULED
C23_Witness ==
    /\ resp = 302
    /\ Len(outbox) = 3
    /\ Len(sent_emails) = 3
    /\ campaigns[1].status = "ACTIVE"
    /\ Len(campaigns) = 2
    /\ campaigns[2].status = "SCHEDULED"
    /\ logged # << >> /\ logged[1].action = "Sent campaign emails"

(***************************************************************************)
(* The addresses stored with Events and audit entries (views.py:268-293,   *)
(* utils.py:13-57).                                                        *)
(***************************************************************************)
\* the database of InitAccess, reached over a connection with any of the
\* addresses
InitPrivacy ==
    /\ recipients = <<Rec(addr_a)>>
    /\ links = <<Link(1, 1, 1)>>
    /\ events = EmptyBag
    /\ outbox = << >>
    /\ sent_emails = << >>
    /\ imp = ImpIdle
    /\ resp = 0
    /\ upload = NoUpload
    /\ hist = << >>
    /\ location = ""
    /\ templates = DefaultTemplates
    /\ campaigns = <<Campaign(1, "inst")>>
    /\ render = NoRender
    /\ workers = << >>
    /\ settings = DefaultSettings
    /\ client \in [REMOTE_ADDR : ClientAddrs]
    /\ logged = << >>

\* a file of lines without a valid address: more error rows than
\* SUSPICIOUS_ERRORS when all of it is uploaded
ErrorFile == << <<<<"a", "d">>, EmptyStr>>, <<<<" ">>, EmptyStr>>, <<<<"b", "d">>, EmptyStr>> >>

\* the requests that store an address: the capture endpoints, and views that
\* write audit entries themselves, through the decorator or through the import
NextPrivacy ==
    \/ capture /\ UNCHANGED <<upload, hist, others>>
    \/ \E user \in Requesters, valid \in BOOLEAN :
          template_create(user, valid, "GENERAL", <<"Notice">>)
    \/ \E user \in Requesters, pk \in Campaigns : campaign_detail(user, pk)
    \/ \E user \in Requesters, n \in 1..MaxRows :
          upload_recipients(user, 1, SubSeq(ErrorFile, 1, n), <<2, 2, 2>>)

SpecPrivacy == InitPrivacy /\ [][NextPrivacy]_vars

\* the value is empty or the 64 characters of the digest of the address of
\* the connection, and it is not the address
EmptyOrHashOf(value, ip) ==
    \/ value = ""
    \/ /\ ip # ""
       /\ value = sha256_hexdigest(ip)
       /\ Len(value) = 64
       /\ value # ip

\* C24: the IP field of every stored Event and of every audit entry is empty
\* or the SHA-256 hex digest (64 characters) of the address the request came
\* from; the raw address is never stored.
C24_StoredIpIsEmptyOrHash ==
    /\ \A e \in BagToSet(events) :
          /\ EmptyOrHashOf(e.ip_hash, client.REMOTE_ADDR)
          /\ e.ip_hash \notin ClientAddrs \ {""}
    /\ \A i \in DOMAIN logged :
          /\ EmptyOrHashOf(logged[i].ip_address, client.REMOTE_ADDR)
          /\ logged[i].ip_address \notin ClientAddrs \ {""}

\* an Event and the audit entry of a user's upload hold the digest of a
\* public address, next to the entry the import wrote without a request
C24_Witness ==
    /\ client.REMOTE_ADDR = "203.0.113.9"
    /\ \E e \in BagToSet(events) : e.ip_hash = sha256_hexdigest("203.0.113.9")
    /\ logged # << >>
    /\ Len(logged) = 2
    /\ logged[1].user = NullUser
    /\ logged[2].user = "inst"
    /\ logged[2].ip_address = sha256_hexdigest("203.0.113.9")

(***************************************************************************)
(* Imports into a populated database, line by line, and whole uploads      *)
(* (services.py:637-727, views.py:191-263).                                *)
(***************************************************************************)
\* data lines under the header "email,first_name": the addresses in both
\* cases with a first name, and two lines without a valid address
NamedLines ==
    { <<addr_a, <<"n">>>>, <<addr_A, <<"n">>>>, <<addr_b, <<"n">>>>,
      <<<<"a", "d">>, EmptyStr>>, <<<<" ">>, EmptyStr>> }

\* imports of files of such lines, line by line, into the database of
\* InitAccess: a Recipient without names, linked to campaign 1
NextRows ==
    \/ \E c \in Campaigns : ImportBegin(c, TRUE, GoodHeader, TRUE)
                              /\ UNCHANGED <<upload, hist, others>>
    \/ \E line \in NamedLines, tok \in Tokens, fault \in BOOLEAN, last \in BOOLEAN :
          ImportRow(line, tok, fault, last) /\ UNCHANGED <<upload, hist, others>>

SpecRows == InitAccess /\ [][NextRows]_vars

\* the normalized email of the line belongs to a committed Recipient, and the
\* row reaches the get_or_create of services.py:686
HitsRecipient(line) ==
    LET email_lower == Lower(Strip(line[1]))
    IN /\ imp.pc = "rows"
       /\ validate_email(Strip(line[1]))
       /\ email_lower \notin imp.emails_seen_in_file
       /\ ~LimitReached(imp)
       /\ RecipientsByEmail(recipients, email_lower) # {}

\* C25: importing a row whose normalized email already belongs to a Recipient
\* uses that Recipient and leaves its first name, last name and department
\* as they were, whatever the row holds; no Recipient is created for the row
\* and created_count is not incremented; a link written for the row is a link
\* of that Recipient.
C25_ExistingRecipientIsKept ==
    [][\A line \in NamedLines, tok \in Tokens, fault \in BOOLEAN, last \in BOOLEAN :
          (HitsRecipient(line) /\ ImportRow(line, tok, fault, last)) =>
             LET rid == CHOOSE i \in RecipientsByEmail(recipients, Lower(Strip(line[1]))) : TRUE
                 before == ViewLinks(imp)
                 after == links' \o imp'.txLinks
             IN /\ \A i \in DOMAIN recipients : recipients'[i] = recipients[i]
                /\ Len(recipients') + Len(imp'.txRecipients)
                     = Len(recipients) + Len(imp.txRecipients)
                /\ imp'.created_count = imp.created_count
                /\ \A k \in (Len(before) + 1)..Len(after) :
                      after[k].recipient = rid /\ after[k].campaign = imp.campaign]_vars

\* an import into campaign 2 of a row with the address of the Recipient, in
\* capitals and with a first name, has returned: nothing was created, the
\* Recipient was linked and it still has no first name
C25_Witness ==
    /\ imp.pc = "done" /\ imp.status = "ok"
    /\ imp.campaign = 2
    /\ imp.row_num = 2
    /\ imp.created_count = 0
    /\ imp.linked_count = 1
    /\ Len(recipients) = 1
    /\ recipients[1].first_name = EmptyStr
    /\ \E k \in DOMAIN links : links[k].campaign = 2 /\ links[k].recipient = 1

\* data rows the import in flight, or the last one, has read
RowsRead == imp.row_num - 1

\* C30: at every point of every import created_count <= linked_count, and
\* linked_count plus the number of error rows never exceeds the number of
\* data rows read so far: a newly created recipient always yields a newly
\* created link in the same row.
C30_CreatedNeverExceedsLinked ==
    imp.pc \in {"rows", "done"} /\ imp.row_num >= 1 =>
       /\ imp.created_count <= imp.linked_count
       /\ imp.linked_count + Len(imp.error_rows) <= RowsRead

\* what holds of the counters: a row is counted as linked or as an error row,
\* never both, and a created recipient without link belongs to an error row
CountersWithinRowsRead ==
    imp.pc \in {"rows", "done"} /\ imp.row_num >= 1 =>
       /\ imp.linked_count + Len(imp.error_rows) <= RowsRead
       /\ imp.created_count <= imp.linked_count + Len(imp.error_rows)
       /\ imp.created_count <= RowsRead

\* the lines of the uploaded files: two addresses with a first name, and a
\* line without "@"
UploadLines ==
    { <<addr_a, <<"n">>>>, <<addr_b, <<"n">>>>, <<<<"a", "d">>, EmptyStr>> }


\* the files of up to MaxRows of these lines
NamedFiles == UNION { [1..n -> UploadLines] : n \in 1..MaxRows }

\* the values uuid4 returns during one upload: here the same for every line
UploadTokens(lines) == { [i \in DOMAIN lines |-> t] : t \in Tokens }

\* uploads of whole files by the instructor into the database of InitAccess
NextUpload ==
    \E pk \in Campaigns, lines \in NamedFiles :
       \E toks \in UploadTokens(lines) : upload_recipients(Sender, pk, lines, toks)

SpecUpload == InitAccess /\ [][NextUpload]_vars

\* the last request was an upload whose import returned
UploadReturned ==
    /\ render.done
    /\ "level" \in DOMAIN render
    /\ render.level \in {"success", "warning"}
    /\ imp.status = "ok"

\* row number and reason of the first n error rows of the returned import
FirstErrorDetails(n) ==
    [i \in 1..n |-> <<imp.error_rows[i], imp.error_details[i]>>]

\* C26: after a successful import with k >= 1 error rows the message reports
\* the count k and the row number and reason of the first min(k, 5) error
\* rows, for every k, k > 5 included (5 is DETAILS_LIMIT in the model).
C26_MessageListsFirstErrorRows ==
    LET k == Len(imp.error_rows)
        n == IF k < DETAILS_LIMIT THEN k ELSE DETAILS_LIMIT
    IN (UploadReturned /\ k >= 1) =>
          /\ render.error_count = k
          /\ render.details = FirstErrorDetails(n)

\* the message reports the count for every k, and the details of all error
\* rows when there are at most DETAILS_LIMIT of them
MessageListsErrorRowsWhenFew ==
    LET k == Len(imp.error_rows)
    IN (UploadReturned /\ k >= 1) =>
          /\ render.error_count = k
          /\ render.level = "warning"
          /\ k <= DETAILS_LIMIT => render.details = FirstErrorDetails(k)
          /\ k > DETAILS_LIMIT => render.details = << >>

\* the last request was an upload whose import aborted at the limit
UploadAbortedAtLimit ==
    /\ render.done
    /\ "level" \in DOMAIN render
    /\ render.level = "error"
    /\ imp.status = "limit"

\* C28: when an import aborts with the limit-exceeded failure, the audit
\* entry 'Recipient limit exceeded - CSV upload' written just before the
\* abort is still in the audit log after the failure: the rollback of the
\* import's rows does not remove it.
C28_LimitEntrySurvivesRollback ==
    UploadAbortedAtLimit =>
       \E i \in DOMAIN logged :
           logged[i].action = "Recipient limit exceeded - CSV upload"

\* what the request leaves in the audit log instead: the entry of the view
\* for the failed import, alone
LimitAbortLeavesOnlyTheViewEntry ==
    UploadAbortedAtLimit =>
       /\ Len(logged) = 1
       /\ logged[1].action = "CSV import failed"
       /\ logged[1].user = Sender.username

(***************************************************************************)
(* The audit entries of the mutating requests (views.py:58-72, 113-128,    *)
(* 191-263, 361-379).                                                      *)
(***************************************************************************)
\* uploaded files: one new address, and one, two or three lines without a
\* valid address
AuditFiles == { << <<addr_b, <<"n">>>> >> } \cup { SubSeq(ErrorFile, 1, n) : n \in 1..MaxRows }

\* the four mutating requests by every account
NextMutations ==
    \/ \E user \in Users, valid \in BOOLEAN :
          template_create(user, valid, "GENERAL", <<"Notice">>)
    \/ \E user \in Users, valid \in BOOLEAN, t \in DOMAIN templates :
          campaign_create(user, valid, t, "DRAFT")
    \/ \E user \in Users, pk \in DOMAIN campaigns, lines \in AuditFiles :
          upload_recipients(user, pk, lines, [i \in DOMAIN lines |-> 2])
    \/ \E user \in Users, pk \in DOMAIN campaigns : post_send_campaign(user, pk, {})

SpecMutations == InitAccess /\ [][NextMutations]_vars

\* the request added one audit entry, of the user and with the action string
OneEntry(user, action) ==
    /\ Len(logged') = 1
    /\ logged'[1].user = user.username
    /\ logged'[1].action = action

Staff(user) == role_required(user, {"ADMIN", "INSTRUCTOR"}) = "view"

\* the three requests other than the upload add their one entry
OthersAddOneEntry(user) ==
    /\ (Staff(user) /\ template_create(user, TRUE, "GENERAL", <<"Notice">>))
         => OneEntry(user, "Created email template")
    /\ \A t \in DOMAIN templates :
          (Staff(user) /\ campaign_create(user, TRUE, t, "DRAFT"))
            => OneEntry(user, "Created campaign")
    /\ \A pk \in DOMAIN campaigns :
          (Staff(user) /\ post_send_campaign(user, pk, {}) /\ resp' = 302)
            => OneEntry(user, "Sent campaign emails")

\* the upload of the file by the user ran the import and the import returned
SuccessfulUpload(user, pk, lines) ==
    /\ Staff(user)
    /\ pk \in DOMAIN campaigns
    /\ upload_recipients(user, pk, lines, [i \in DOMAIN lines |-> 2])
    /\ imp'.status = "ok"

OneAuditEntryUnlessManyErrors ==
    [][\A user \in Users :
          /\ OthersAddOneEntry(user)
          /\ \A pk \in Campaigns, lines \in AuditFiles :
                SuccessfulUpload(user, pk, lines) =>
                   IF Len(imp'.error_rows) <= SUSPICIOUS_ERRORS
                     THEN OneEntry(user, "Uploaded recipients")
                   ELSE /\ Len(logged') = 2
                        /\ logged'[1].user = NullUser
                        /\ logged'[1].action = "Suspicious CSV import - many errors"
                        /\ logged'[2].user = user.username
                        /\ logged'[2].action = "Uploaded recipients"]_vars

(***************************************************************************)
(* Capture requests statement by statement, next to the administrator      *)
(* (views.py:276-293, admin.py:53-63).  _log_event runs outside any        *)
(* transaction: its SELECT and its INSERT are two statements in autocommit *)
(* mode, and other requests' statements run between them.                  *)
(***************************************************************************)
\* a capture request that has entered _log_event
CaptureRequest(tracking_id, event_type) ==
    [pc |-> "get", tracking_id |-> tracking_id, event_type |-> event_type,
     cr |-> 0, status |-> 0]

\* two capture requests in flight on the two links of a campaign
InitRace ==
    /\ recipients = <<Rec(addr_a), Rec(addr_b)>>
    /\ links = <<Link(1, 1, 1), Link(1, 2, 2)>>
    /\ events = EmptyBag
    /\ outbox = << >>
    /\ sent_emails = << >>
    /\ imp = ImpIdle
    /\ resp = 0
    /\ upload = NoUpload
    /\ hist = << >>
    /\ location = ""
    /\ templates = DefaultTemplates
    /\ campaigns = DefaultCampaigns
    /\ render = NoRender
    /\ \E t1 \in Tokens, t2 \in Tokens, e1 \in EventTypes, e2 \in EventTypes :
          workers = <<CaptureRequest(t1, e1), CaptureRequest(t2, e2)>>
    /\ settings = DefaultSettings
    /\ client = DefaultClient
    /\ logged = << >>

\* CampaignRecipient.objects.select_related("campaign").get(tracking_id=,
\* is_active=True) (views.py:277-282): Http404 if no row matches
_log_event_get(w) ==
    /\ workers[w].pc = "get"
    /\ LET found == ActiveLinksByToken(links, workers[w].tracking_id)
       IN workers' =
            [workers EXCEPT ![w] =
               IF Cardinality(found) = 1
                 THEN [@ EXCEPT !.pc = "create", !.cr = CHOOSE i \in found : TRUE]
               ELSE [@ EXCEPT !.pc = "done",
                              !.status = IF found = {} THEN 404 ELSE 500]]
    /\ UNCHANGED <<recipients, links, events, outbox, sent_emails, imp, resp, location,
                   logged>>

\* Event.objects.create(campaign_recipient=cr, ...) (views.py:287-292) for the
\* link the request holds, then the response
_log_event_create(w) ==
    /\ workers[w].pc = "create"
    /\ events' = events (+) SetToBag({Event(workers[w].cr, workers[w].event_type)})
    /\ workers' = [workers EXCEPT ![w] = [@ EXCEPT !.pc = "done", !.status = 200]]
    /\ UNCHANGED <<recipients, links, outbox, sent_emails, imp, resp, location, logged>>

\* the administrator's save commits in one statement
admin_save(i, flag) ==
    /\ admin_set_active(i, flag)
    /\ UNCHANGED workers

NextRace ==
    \/ \E w \in DOMAIN workers : _log_event_get(w) /\ UNCHANGED <<upload, hist, templates,
                                    campaigns, render, settings, client>>
    \/ \E w \in DOMAIN workers : _log_event_create(w) /\ UNCHANGED <<upload, hist, templates,
                                    campaigns, render, settings, client>>
    \/ \E i \in 1..Len(links), flag \in BOOLEAN :
          admin_save(i, flag) /\ UNCHANGED <<upload, hist, templates, campaigns, render,
                                             settings, client>>

SpecRace == InitRace /\ [][NextRace]_vars

\* C29: no Event is ever written for a link that is inactive at the moment
\* the Event row is created, also when an administrator deactivates the link
\* concurrently: the active-check and the creation of the Event cannot be
\* separated by a deactivation.
C29_NoEventForInactiveLink ==
    [][\A w \in DOMAIN workers :
          _log_event_create(w) => links[workers[w].cr].is_active]_vars

\* what the code gives: the link of a written Event was active when the
\* request looked it up, and its token is the requested one
EventOnlyForLinkFoundActive ==
    \A w \in DOMAIN workers :
        workers[w].pc = "create" =>
           /\ workers[w].cr \in DOMAIN links
           /\ links[workers[w].cr].tracking_id = workers[w].tracking_id

====
